---- MODULE Spec2Model ----
(***************************************************************************)
(* A model of dirgo's scan-detect-parse pipeline: the directory scanner    *)
(* (core/scanner.ts), the file helpers (utils/fs.ts), the project-type     *)
(* detector and ecosystem parsers (parsers/*.ts), the monorepo detector    *)
(* (monorepo/detect.ts) and the context assembler (core/context.ts).       *)
(*                                                                         *)
(* A path is the sequence of its segments below the scan root (the root is *)
(* <<>>); a string the code inspects character by character (a relative    *)
(* path, a focus prefix, a glob) is the sequence of its characters.        *)
(* An optional JavaScript value is <<>> (undefined / null) or <<v>>.       *)
(***************************************************************************)
EXTENDS Integers, Sequences, FiniteSets, TLC

VARIABLES
  fs,        \* the directory tree: path -> [kind, size, content]
  faults,    \* [unlistable, unstatable, unreadable]: paths whose readdir / stat / readFile fails
  pc,        \* "idle" before the call, "done" after it
  call,      \* [op, options, format, useEmoji, type]: the call and its arguments
  outcome,   \* [status, value]: what the call returned ("ok") or that it threw ("error")
  stdin,     \* the lines the MCP server is given on its standard input
  cursor,    \* the number of lines the server has consumed
  stdout,    \* the responses the server has written, in order
  tasks      \* the scans in flight: [pc, options, ig, stack, entries, result] each

vars == <<fs, faults, pc, call, outcome, stdin, cursor, stdout, tasks>>

Undefined == <<>>
Some(v) == <<v>>

\* Bounds of the model.
MaxDepth == 2
MaxLines == 2

-----------------------------------------------------------------------------
(* Strings                                                                 *)

\* The characters of the names, patterns and prefixes the model uses.
Spelling ==
  ("a" :> <<"a">>) @@
  ("ab" :> <<"a", "b">>) @@
  ("b" :> <<"b">>) @@
  ("c" :> <<"c">>) @@
  ("dist" :> <<"d", "i", "s", "t">>) @@
  ("m.pyc" :> <<"m", ".", "p", "y", "c">>) @@
  ("*.pyc" :> <<"*", ".", "p", "y", "c">>) @@
  ("*.pyo" :> <<"*", ".", "p", "y", "o">>) @@
  ("#x" :> <<"#", "x">>) @@
  (".gitignore" :> <<".", "g", "i", "t", "i", "g", "n", "o", "r", "e">>) @@
  ("package.json" :> <<"p", "a", "c", "k", "a", "g", "e", ".", "j", "s", "o", "n">>) @@
  ("Cargo.toml" :> <<"C", "a", "r", "g", "o", ".", "t", "o", "m", "l">>) @@
  ("go.mod" :> <<"g", "o", ".", "m", "o", "d">>) @@
  ("pyproject.toml" :> <<"p", "y", "p", "r", "o", "j", "e", "c", "t", ".", "t", "o", "m", "l">>) @@
  ("requirements.txt" :> <<"r", "e", "q", "u", "i", "r", "e", "m", "e", "n", "t", "s", ".", "t", "x", "t">>) @@
  ("Pipfile" :> <<"P", "i", "p", "f", "i", "l", "e">>) @@
  ("setup.py" :> <<"s", "e", "t", "u", "p", ".", "p", "y">>) @@
  ("turbo.json" :> <<"t", "u", "r", "b", "o", ".", "j", "s", "o", "n">>) @@
  ("nx.json" :> <<"n", "x", ".", "j", "s", "o", "n">>) @@
  ("lerna.json" :> <<"l", "e", "r", "n", "a", ".", "j", "s", "o", "n">>) @@
  ("pnpm-workspace.yaml" :> <<"p", "n", "p", "m", "-", "w", "o", "r", "k", "s", "p", "a", "c", "e", ".", "y", "a", "m", "l">>) @@
  ("go.work" :> <<"g", "o", ".", "w", "o", "r", "k">>) @@
  ("tsconfig.json" :> <<"t", "s", "c", "o", "n", "f", "i", "g", ".", "j", "s", "o", "n">>) @@
  (".python-version" :> <<".", "p", "y", "t", "h", "o", "n", "-", "v", "e", "r", "s", "i", "o", "n">>) @@
  ("yarn.lock" :> <<"y", "a", "r", "n", ".", "l", "o", "c", "k">>) @@
  ("packages" :> <<"p", "a", "c", "k", "a", "g", "e", "s">>) @@
  ("crates" :> <<"c", "r", "a", "t", "e", "s">>) @@
  ("apps" :> <<"a", "p", "p", "s">>) @@
  ("libs" :> <<"l", "i", "b", "s">>) @@
  ("*" :> <<"*">>) @@
  ("pkg*" :> <<"p", "k", "g", "*">>) @@
  ("pkg" :> <<"p", "k", "g">>) @@
  ("node" :> <<"n", "o", "d", "e">>) @@
  ("python" :> <<"p", "y", "t", "h", "o", "n">>) @@
  ("go" :> <<"g", "o">>) @@
  ("rust" :> <<"r", "u", "s", "t">>) @@
  ("unknown" :> <<"u", "n", "k", "n", "o", "w", "n">>) @@
  ("npm" :> <<"n", "p", "m">>) @@
  ("pnpm" :> <<"p", "n", "p", "m">>) @@
  ("yarn" :> <<"y", "a", "r", "n">>) @@
  ("bun" :> <<"b", "u", "n">>) @@
  ("npm-workspaces" :> <<"n", "p", "m", "-", "w", "o", "r", "k", "s", "p", "a", "c", "e", "s">>) @@
  ("turbo" :> <<"t", "u", "r", "b", "o">>) @@
  ("nx" :> <<"n", "x">>) @@
  ("lerna" :> <<"l", "e", "r", "n", "a">>) @@
  ("go-workspace" :> <<"g", "o", "-", "w", "o", "r", "k", "s", "p", "a", "c", "e">>) @@
  ("cargo-workspace" :> <<"c", "a", "r", "g", "o", "-", "w", "o", "r", "k", "s", "p", "a", "c", "e">>) @@
  ("poetry" :> <<"p", "o", "e", "t", "r", "y">>) @@
  ("hatch" :> <<"h", "a", "t", "c", "h">>) @@
  ("flit" :> <<"f", "l", "i", "t">>) @@
  ("setuptools" :> <<"s", "e", "t", "u", "p", "t", "o", "o", "l", "s">>) @@
  ("pipenv" :> <<"p", "i", "p", "e", "n", "v">>) @@
  ("pip" :> <<"p", "i", "p">>) @@
  ("app" :> <<"a", "p", "p">>) @@
  ("1.0.0" :> <<"1", ".", "0", ".", "0">>) @@
  ("react" :> <<"r", "e", "a", "c", "t">>) @@
  ("^18.0.0" :> <<"^", "1", "8", ".", "0", ".", "0">>) @@
  ("jest" :> <<"j", "e", "s", "t">>) @@
  ("^29.0.0" :> <<"^", "2", "9", ".", "0", ".", "0">>) @@
  ("@org/a" :> <<"@", "o", "r", "g", "/", "a">>) @@
  ("serde" :> <<"s", "e", "r", "d", "e">>) @@
  ("1.0" :> <<"1", ".", "0">>) @@
  ("tokio" :> <<"t", "o", "k", "i", "o">>) @@
  ("{ version = \"1\" }" :> <<"{", " ", "v", "e", "r", "s", "i", "o", "n", " ", "=", " ", "\"", "1", "\"", " ", "}">>) @@
  ("2021" :> <<"2", "0", "2", "1">>) @@
  ("core" :> <<"c", "o", "r", "e">>) @@
  ("flask" :> <<"f", "l", "a", "s", "k">>) @@
  ("2.0" :> <<"2", ".", "0">>) @@
  ("requests" :> <<"r", "e", "q", "u", "e", "s", "t", "s">>) @@
  ("latest" :> <<"l", "a", "t", "e", "s", "t">>) @@
  ("pytest" :> <<"p", "y", "t", "e", "s", "t">>) @@
  ("3.8" :> <<"3", ".", "8">>) @@
  ("3.9" :> <<"3", ".", "9">>) @@
  ("1.2" :> <<"1", ".", "2">>) @@
  ("3.11" :> <<"3", ".", "1", "1">>) @@
  ("example.com/m" :> <<"e", "x", "a", "m", "p", "l", "e", ".", "c", "o", "m", "/", "m">>) @@
  ("1.21" :> <<"1", ".", "2", "1">>) @@
  ("github.com/x/y" :> <<"g", "i", "t", "h", "u", "b", ".", "c", "o", "m", "/", "x", "/", "y">>) @@
  ("v1.2.3" :> <<"v", "1", ".", "2", ".", "3">>) @@
  ("github.com/x/z" :> <<"g", "i", "t", "h", "u", "b", ".", "c", "o", "m", "/", "x", "/", "z">>) @@
  ("v0.1.0" :> <<"v", "0", ".", "1", ".", "0">>) @@
  ("./a" :> <<".", "/", "a">>) @@
  ("./b" :> <<".", "/", "b">>) @@
  ("use" :> <<"u", "s", "e">>) @@
  ("//" :> <<"/", "/">>) @@
  ("x" :> <<"x">>) @@
  ("indirect" :> <<"i", "n", "d", "i", "r", "e", "c", "t">>) @@
  ("ES2022" :> <<"E", "S", "2", "0", "2", "2">>)

\* Collation rank of a character under String.prototype.localeCompare:
\* punctuation before digits before letters, letters without regard to case.
CharRank ==
  (" " :> 13) @@
  ("\"" :> 14) @@
  ("#" :> 8) @@
  ("*" :> 7) @@
  ("-" :> 2) @@
  ("." :> 3) @@
  ("/" :> 5) @@
  ("0" :> 20) @@
  ("1" :> 21) @@
  ("2" :> 22) @@
  ("3" :> 23) @@
  ("8" :> 28) @@
  ("9" :> 29) @@
  ("=" :> 12) @@
  ("@" :> 6) @@
  ("C" :> 42) @@
  ("E" :> 44) @@
  ("P" :> 55) @@
  ("S" :> 58) @@
  ("^" :> 9) @@
  ("a" :> 40) @@
  ("b" :> 41) @@
  ("c" :> 42) @@
  ("d" :> 43) @@
  ("e" :> 44) @@
  ("f" :> 45) @@
  ("g" :> 46) @@
  ("h" :> 47) @@
  ("i" :> 48) @@
  ("j" :> 49) @@
  ("k" :> 50) @@
  ("l" :> 51) @@
  ("m" :> 52) @@
  ("n" :> 53) @@
  ("o" :> 54) @@
  ("p" :> 55) @@
  ("q" :> 56) @@
  ("r" :> 57) @@
  ("s" :> 58) @@
  ("t" :> 59) @@
  ("u" :> 60) @@
  ("v" :> 61) @@
  ("w" :> 62) @@
  ("x" :> 63) @@
  ("y" :> 64) @@
  ("z" :> 65) @@
  ("{" :> 10) @@
  ("}" :> 11)

\* s.startsWith(prefix)
StartsWith(s, prefix) ==
  /\ Len(prefix) <= Len(s)
  /\ SubSeq(s, 1, Len(prefix)) = prefix

\* s.endsWith(suffix)
EndsWith(s, suffix) ==
  /\ Len(suffix) <= Len(s)
  /\ SubSeq(s, Len(s) - Len(suffix) + 1, Len(s)) = suffix

\* a.localeCompare(b) < 0
RECURSIVE LocaleLess(_, _)
LocaleLess(a, b) ==
  IF a = <<>> THEN b # <<>>
  ELSE IF b = <<>> THEN FALSE
  ELSE IF CharRank[Head(a)] = CharRank[Head(b)] THEN LocaleLess(Tail(a), Tail(b))
  ELSE CharRank[Head(a)] < CharRank[Head(b)]

\* A sort with the comparison reversed.
RECURSIVE SortNamesDescending(_)
SortNamesDescending(S) ==
  IF S = {} THEN <<>>
  ELSE LET greatest == CHOOSE n \in S :
                         \A m \in S \ {n} : LocaleLess(Spelling[m], Spelling[n])
       IN <<greatest>> \o SortNamesDescending(S \ {greatest})

\* The names of a set in ascending localeCompare order (Array.prototype.sort).
RECURSIVE SortNames(_)
SortNames(S) ==
  IF S = {} THEN <<>>
  ELSE LET least == CHOOSE n \in S :
                      \A m \in S \ {n} : LocaleLess(Spelling[n], Spelling[m])
       IN <<least>> \o SortNames(S \ {least})

\* path.relative(baseDir, join(dir, name)) for a path below baseDir: the
\* segments joined by "/".
RECURSIVE RelativePath(_)
RelativePath(segs) ==
  IF segs = <<>> THEN <<>>
  ELSE IF Len(segs) = 1 THEN Spelling[segs[1]]
  ELSE Spelling[segs[1]] \o <<"/">> \o RelativePath(Tail(segs))

-----------------------------------------------------------------------------
(* utils/fs.ts and node:fs                                                 *)

Root == <<>>

\* fs.access(path, F_OK) succeeds
exists(path) == path \in DOMAIN fs

\* readFile(path, "utf-8") caught: the lines of the file, or null
readText(path) ==
  IF path \in DOMAIN fs /\ fs[path].kind = "file" /\ path \notin faults.unreadable
  THEN Some(fs[path].content)
  ELSE Undefined

\* !content, for the result of readText (null and "" are both falsy)
Falsy(text) == text = Undefined \/ text[1].lines = <<>>

\* The file a path names once the symbolic links along it are followed: fs
\* holds the real paths, a link holds the path of its target
RECURSIVE Real(_)
Real(path) ==
  IF path \in DOMAIN fs
  THEN (IF fs[path].kind = "link" THEN Real(fs[path].target) ELSE path)
  ELSE IF path = <<>> \/ Real(SubSeq(path, 1, Len(path) - 1)) = SubSeq(path, 1, Len(path) - 1)
    THEN path
  ELSE Real(Append(Real(SubSeq(path, 1, Len(path) - 1)), path[Len(path)]))

\* The directory entry behind a path: the links of the parent are followed,
\* the entry itself is not
Dirent(path) ==
  IF path \in DOMAIN fs THEN path
  ELSE Append(Real(SubSeq(path, 1, Len(path) - 1)), path[Len(path)])

\* readdir(dir, {withFileTypes: true}) throws
ReaddirThrows(dir) ==
  \/ Real(dir) \notin DOMAIN fs
  \/ fs[Real(dir)].kind # "dir"
  \/ dir \in faults.unlistable

ChildNames(real) ==
  { p[Len(p)] : p \in { q \in DOMAIN fs :
                          Len(q) = Len(real) + 1 /\ SubSeq(q, 1, Len(real)) = real } }

\* readdir(dir, {withFileTypes: true}): the names of the children
readdir(dir) == ChildNames(Real(dir))

\* A directory test on what the entry points to, as stat would answer
isDirectoryOfTarget(path) == fs[Real(path)].kind = "dir"

\* item.isDirectory(): the type of the directory entry itself, a symbolic
\* link is no directory
isDirectory(path) == fs[Dirent(path)].kind = "dir"

\* stat(path).size, undefined when stat throws; stat follows the links
StatSize(path) ==
  IF path \in faults.unstatable THEN Undefined ELSE Some(fs[Real(path)].size)

-----------------------------------------------------------------------------
(* core/scanner.ts                                                         *)

DEFAULT_EXCLUDES ==
  << "node_modules", ".git", "dist", "build", ".next", ".nuxt", ".output",
     "coverage", "__pycache__", ".pytest_cache", ".venv", "venv", ".env",
     "target", ".cache", ".turbo", ".DS_Store", "*.pyc", "*.pyo" >>

\* One rule of the ignore package against one path segment: a rule without
\* a slash matches a name at any level, "*" matches any run of characters.
RuleMatches(rule, name) ==
  IF rule \in DOMAIN Spelling /\ Head(Spelling[rule]) = "*"
  THEN EndsWith(Spelling[name], Tail(Spelling[rule]))
  ELSE rule = name

\* ig.ignores(relativePath): a path is ignored when a rule matches it or
\* one of its parent directories.
ignores(ig, path) ==
  \E i \in 1..Len(path) : \E r \in 1..Len(ig) : RuleMatches(ig[r], path[i])

\* loadGitignore(dir): the trimmed lines that are neither blank nor comments.
\* A line of .gitignore is modelled by its trimmed text ("" for a blank line).
loadGitignore(dir) ==
  LET content == readText(Append(dir, ".gitignore"))
  IN IF Falsy(content) THEN <<>>
     ELSE SelectSeq(content[1].lines,
                    LAMBDA line : line # "" /\ Head(Spelling[line]) # "#")

Returned(entries) == [thrown |-> FALSE, entries |-> entries]
Thrown == [thrown |-> TRUE, entries |-> <<>>]

\* An entry that records the depth of the scan root
FileEntryAtRoot(path, isDir, depth) ==
  [ name |-> path[Len(path)],
    path |-> path,
    relativePath |-> RelativePath(path),
    isDirectory |-> isDir,
    depth |-> 0,
    size |-> StatSize(path) ]

FileEntry(path, isDir, depth) ==
  [ name |-> path[Len(path)],
    path |-> path,
    relativePath |-> RelativePath(path),
    isDirectory |-> isDir,
    depth |-> depth,
    size |-> StatSize(path) ]

\* The directory test of the focus filter (scanner.ts line 74).
DirFocusSkips(relativePath, focus) ==
  /\ focus # <<>>
  /\ ~StartsWith(relativePath, focus)
  /\ ~StartsWith(focus, relativePath)

\* The file test of the focus filter (scanner.ts line 108).
FileFocusSkips(relativePath, focus) ==
  /\ focus # <<>>
  /\ ~StartsWith(relativePath, focus)

\* A depth test that also stops at the boundary depth.
DepthExceededAtBoundary(depth, maxDepth) == maxDepth # Undefined /\ depth >= maxDepth[1]

\* The depth test of scanDirectory (scanner.ts line 48).
DepthExceeded(depth, maxDepth) == maxDepth # Undefined /\ depth > maxDepth[1]

RECURSIVE scanDirectory(_, _, _, _, _)
RECURSIVE ScanDirs(_, _, _, _, _, _)

\* A directory's entry followed by its subtree and by the directories after
\* it; a failure below rejects the whole walk (scanner.ts lines 84-101).
Entered(entry, sub, rest) ==
  IF sub.thrown \/ rest.thrown THEN Thrown
  ELSE Returned(<<entry>> \o sub.entries \o rest.entries)

\* The loop over the sorted subdirectories (scanner.ts lines 70-102).
ScanDirs(dir, names, ig, depth, maxDepth, focus) ==
  IF names = <<>> THEN Returned(<<>>)
  ELSE IF DirFocusSkips(RelativePath(Append(dir, Head(names))), focus)
    THEN ScanDirs(dir, Tail(names), ig, depth, maxDepth, focus)
  ELSE Entered(FileEntry(Append(dir, Head(names)), TRUE, depth),
               scanDirectory(Append(dir, Head(names)), ig, depth + 1, maxDepth, focus),
               ScanDirs(dir, Tail(names), ig, depth, maxDepth, focus))

\* The entries of the files a list of names keeps
FileEntries(dir, kept, depth) ==
  [ i \in 1..Len(kept) |-> FileEntry(Append(dir, kept[i]), FALSE, depth) ]

\* The loop over the sorted files (scanner.ts lines 104-126).
ScanFiles(dir, names, depth, focus) ==
  FileEntries(dir,
              SelectSeq(names,
                LAMBDA n : ~FileFocusSkips(RelativePath(Append(dir, n)), focus)),
              depth)

\* The directories (or the files) of dir that pass the ignore filter, sorted
\* (scanner.ts lines 53-68).
Listed(dir, ig, directories) ==
  SortNames({ n \in readdir(dir) :
                /\ ~ignores(ig, Append(dir, n))
                /\ isDirectory(Append(dir, n)) = directories })

\* The directories' entries, then the files'
Walked(subtree, files) ==
  IF subtree.thrown THEN Thrown ELSE Returned(subtree.entries \o files)

scanDirectory(dir, ig, depth, maxDepth, focus) ==
  IF DepthExceeded(depth, maxDepth) THEN Returned(<<>>)
  ELSE IF ReaddirThrows(dir) THEN Thrown
  ELSE Walked(ScanDirs(dir, Listed(dir, ig, TRUE), ig, depth, maxDepth, focus),
              ScanFiles(dir, Listed(dir, ig, FALSE), depth, focus))

\* A rule set that leaves out the patterns of .gitignore.
IgnoreRulesWithoutGitignore(opts) ==
  (IF opts.includeAll THEN <<>> ELSE DEFAULT_EXCLUDES) \o opts.ignore

\* The rule set scan assembles (scanner.ts lines 133-144).
IgnoreRules(opts) ==
  (IF opts.includeAll THEN <<>> ELSE DEFAULT_EXCLUDES)
    \o opts.ignore
    \o loadGitignore(Root)

-----------------------------------------------------------------------------
(* utils/fs.ts: JSON and the TOML subset                                   *)
(*                                                                         *)
(* A file's content is [lines, json]: its lines ("" has none) and, when    *)
(* the text is valid JSON, the value JSON.parse gives.  A JSON object is a *)
(* record holding the keys that are present.                               *)

\* obj?.[key]
Get(obj, key) ==
  IF obj # Undefined /\ key \in DOMAIN obj[1] THEN Some(obj[1][key]) ELSE Undefined

\* readJson(path): null when the file cannot be read or JSON.parse throws
readJson(path) ==
  LET text == readText(path)
  IN IF text = Undefined THEN Undefined ELSE text[1].json

\* A line of a TOML file after trim() and the two regular expressions of
\* parseToml: [kind |-> "section", name |-> parts], [kind |-> "kv", key, value]
\* or [kind |-> "skip"] (blank, comment, or neither a section nor key = value).
\* A value is [t |-> "string" | "bool" | "int" | "array" | "raw", v |-> ...];
\* "raw" is the text parseToml keeps as it is (an inline table, a float).
\* The parsed document maps each table's path to its entries in insertion
\* order; the entry of a sub-table has value [t |-> "table"].
TomlTable == [t |-> "table", v |-> ""]

HasKey(entries, key) == \E i \in 1..Len(entries) : entries[i].key = key

\* table[key] = value: replaces the value of an existing key in place
PutKey(entries, key, value) ==
  IF HasKey(entries, key)
  THEN [ i \in 1..Len(entries) |->
           IF entries[i].key = key THEN [key |-> key, value |-> value]
           ELSE entries[i] ]
  ELSE Append(entries, [key |-> key, value |-> value])

\* The walk down the dotted name of a section header (fs.ts lines 82-90),
\* creating the tables that are missing.
RECURSIVE OpenSection(_, _, _)
OpenSection(doc, parts, n) ==
  IF n > Len(parts) THEN doc
  ELSE LET parent == SubSeq(parts, 1, n - 1)
           here == SubSeq(parts, 1, n)
           made == IF here \in DOMAIN doc THEN doc
                   ELSE (here :> <<>>) @@
                        [doc EXCEPT ![parent] = PutKey(@, parts[n], TomlTable)]
       IN OpenSection(made, parts, n + 1)

RECURSIVE ParseTomlLines(_, _, _)
ParseTomlLines(lines, doc, currentSection) ==
  IF lines = <<>> THEN doc
  ELSE LET line == Head(lines)
       IN IF line.kind = "section"
          THEN ParseTomlLines(Tail(lines), OpenSection(doc, line.name, 1), line.name)
          ELSE IF line.kind = "kv"
          THEN ParseTomlLines(Tail(lines),
                 [doc EXCEPT ![currentSection] = PutKey(@, line.key, line.value)],
                 currentSection)
          ELSE ParseTomlLines(Tail(lines), doc, currentSection)

parseToml(lines) == ParseTomlLines(lines, (<<>> :> <<>>), <<>>)

\* readToml(path): null for a missing, unreadable or empty file
readToml(path) ==
  LET content == readText(path)
  IN IF Falsy(content) THEN Undefined ELSE Some(parseToml(content[1].lines))

\* toml[a][b]...[key] along a table path: the value, or undefined
TomlValue(toml, table, key) ==
  IF toml = Undefined \/ table \notin DOMAIN toml[1] THEN Undefined
  ELSE LET entries == toml[1][table]
           hits == SelectSeq(entries, LAMBDA e : e.key = key)
       IN IF hits = <<>> THEN Undefined ELSE Some(hits[1].value)

\* Object.entries(toml[a][b]...) of a table, undefined when it is missing
TomlEntries(toml, table) ==
  IF toml = Undefined \/ table \notin DOMAIN toml[1] THEN Undefined
  ELSE Some(toml[1][table])

-----------------------------------------------------------------------------
(* parsers/index.ts: detectProjectType                                     *)

ProjectTypeChecks ==
  << <<"package.json", "node">>,
     <<"Cargo.toml", "rust">>,
     <<"go.mod", "go">>,
     <<"pyproject.toml", "python">>,
     <<"requirements.txt", "python">>,
     <<"Pipfile", "python">>,
     <<"setup.py", "python">> >>

RECURSIVE FirstCheck(_, _)
FirstCheck(dir, checks) ==
  IF checks = <<>> THEN "unknown"
  ELSE IF exists(Append(dir, Head(checks)[1])) THEN Head(checks)[2]
  ELSE FirstCheck(dir, Tail(checks))

\* A cascade that looks for go.mod before Cargo.toml.
detectProjectTypeGoFirst(dir) ==
  FirstCheck(dir, <<ProjectTypeChecks[1], ProjectTypeChecks[3], ProjectTypeChecks[2]>>
                    \o SubSeq(ProjectTypeChecks, 4, 7))

detectProjectType(dir) == FirstCheck(dir, ProjectTypeChecks)

Dependency(name, version, isDev, isIndirect) ==
  [name |-> name, version |-> version, isDev |-> isDev, isIndirect |-> isIndirect]

ProjectInfo(type, deps, node, python, go, rust) ==
  [ type |-> type, dependencies |-> deps,
    node |-> node, python |-> python, go |-> go, rust |-> rust ]

-----------------------------------------------------------------------------
(* parsers/node.ts                                                         *)

detectPackageManager(dir) ==
  IF exists(Append(dir, "bun.lockb")) THEN "bun"
  ELSE IF exists(Append(dir, "pnpm-lock.yaml")) THEN "pnpm"
  ELSE IF exists(Append(dir, "yarn.lock")) THEN "yarn"
  ELSE "npm"

\* The keys parseTSConfig copies; the result is undefined when there is none.
parseTSConfig(dir) ==
  LET config == readJson(Append(dir, "tsconfig.json"))
      co == Get(config, "compilerOptions")
      copied == { k \in {"paths", "baseUrl", "target", "module", "strict", "jsx"} :
                    Get(co, k) # Undefined }
                \cup { k \in {"references"} : Get(config, k) # Undefined }
  IN IF config = Undefined \/ copied = {} THEN Undefined
     ELSE Some([ k \in copied |->
                   IF k = "references" THEN config[1][k] ELSE co[1][k] ])

\* Records that are never marked as development dependencies
NodeDepsRuntime(table, isDev) ==
  IF table = Undefined THEN <<>>
  ELSE [ i \in 1..Len(table[1]) |->
           Dependency(table[1][i][1], table[1][i][2], FALSE, FALSE) ]

\* One record per entry of a manifest table (Object.entries order).
NodeDeps(table, isDev) ==
  IF table = Undefined THEN <<>>
  ELSE [ i \in 1..Len(table[1]) |->
           Dependency(table[1][i][1], table[1][i][2], isDev, FALSE) ]

parseNodeProject(dir) ==
  LET pkg == readJson(Append(dir, "package.json"))
      dependencies == NodeDeps(Get(pkg, "dependencies"), FALSE)
                        \o NodeDeps(Get(pkg, "devDependencies"), TRUE)
  IN ProjectInfo("node", dependencies,
       Some([ name |-> Get(pkg, "name"),
              version |-> Get(pkg, "version"),
              packageManager |-> detectPackageManager(dir),
              tsconfig |-> parseTSConfig(dir) ]),
       Undefined, Undefined, Undefined)

-----------------------------------------------------------------------------
(* parsers/go.ts                                                           *)
(*                                                                         *)
(* A line of go.mod or go.work is the sequence of the words of its trimmed *)
(* text, split at white space.                                             *)

\* trimmed.startsWith(keyword + " ")
StartsWithWord(words, keyword) == Len(words) >= 2 /\ words[1] = keyword

\* trimmed.includes("(")
IncludesParen(words) == \E i \in 1..Len(words) : words[i] \in {"(", "require("}

\* trimmed.startsWith("//")
IsSlashComment(words) == words # <<>> /\ words[1] \in {"//", "//x"}

\* A test that never finds the marker
IncludesIndirectNever(words) == FALSE

\* trimmed.includes("// indirect")
IncludesIndirect(words) ==
  \E i \in 1..(Len(words) - 1) : words[i] = "//" /\ words[i + 1] = "indirect"

\* trimmed.replace("// indirect", "").trim().split(/\s+/): the first
\* occurrence is removed
RemoveIndirect(words) ==
  IF ~IncludesIndirect(words) THEN words
  ELSE LET i == CHOOSE j \in 1..(Len(words) - 1) :
                  /\ words[j] = "//" /\ words[j + 1] = "indirect"
                  /\ \A k \in 1..(j - 1) : ~(words[k] = "//" /\ words[k + 1] = "indirect")
       IN SubSeq(words, 1, i - 1) \o SubSeq(words, i + 2, Len(words))

\* The state of parseGoMod's loop: [moduleName, goVersion, dependencies, inRequireBlock]
RECURSIVE GoModLoop(_, _)
GoModLoop(lines, st) ==
  IF lines = <<>> THEN st
  ELSE
    LET words == Head(lines)
        next ==
          IF StartsWithWord(words, "module")
            THEN [st EXCEPT !.moduleName = Some(Tail(words))]
          ELSE IF StartsWithWord(words, "go")
            THEN [st EXCEPT !.goVersion = Some(Tail(words))]
          ELSE IF words = <<"require", "(">>
            THEN [st EXCEPT !.inRequireBlock = TRUE]
          ELSE IF words = <<")">> /\ st.inRequireBlock
            THEN [st EXCEPT !.inRequireBlock = FALSE]
          ELSE IF StartsWithWord(words, "require") /\ ~IncludesParen(words)
            THEN IF Len(Tail(words)) >= 2
                 THEN [st EXCEPT !.dependencies =
                         Append(@, Dependency(words[2], words[3], FALSE, FALSE))]
                 ELSE st
          ELSE IF st.inRequireBlock /\ words # <<>> /\ ~IsSlashComment(words)
            THEN LET parts == RemoveIndirect(words)
                 IN IF Len(parts) >= 2
                    THEN [st EXCEPT !.dependencies =
                            Append(@, Dependency(parts[1], parts[2], FALSE,
                                                 IncludesIndirect(words)))]
                    ELSE st
          ELSE st
    IN GoModLoop(Tail(lines), next)

parseGoMod(lines) ==
  GoModLoop(lines, [ moduleName |-> Undefined, goVersion |-> Undefined,
                     dependencies |-> <<>>, inRequireBlock |-> FALSE ])

parseGoProject(dir) ==
  LET goModContent == readText(Append(dir, "go.mod"))
  IN IF Falsy(goModContent)
     THEN ProjectInfo("go", <<>>, Undefined, Undefined, Undefined, Undefined)
     ELSE LET parsed == parseGoMod(goModContent[1].lines)
          IN ProjectInfo("go", parsed.dependencies, Undefined, Undefined,
               Some([ moduleName |-> parsed.moduleName,
                      goVersion |-> parsed.goVersion ]),
               Undefined)

-----------------------------------------------------------------------------
(* parsers/rust.ts                                                         *)

\* parseDependencies(deps, isDev): the version is the value when it is a
\* string, the version key of a table value when that is a string, else "latest"
parseDependencies(toml, table, isDev) ==
  LET deps == TomlEntries(toml, table)
      VersionOf(e) ==
        IF e.value.t \in {"string", "raw"} THEN e.value.v
        ELSE IF e.value.t = "table"
        THEN LET v == TomlValue(toml, Append(table, e.key), "version")
             IN IF v # Undefined /\ v[1].t \in {"string", "raw"} THEN v[1].v
                ELSE "latest"
        ELSE "latest"
  IN IF deps = Undefined THEN <<>>
     ELSE [ i \in 1..Len(deps[1]) |->
              Dependency(deps[1][i].key, VersionOf(deps[1][i]), isDev, FALSE) ]

\* cargo.package?.[key]
PackageField(toml, key) ==
  LET v == TomlValue(toml, <<"package">>, key)
  IN IF v = Undefined THEN Undefined ELSE Some(v[1].v)

parseRustProject(dir) ==
  LET cargo == readToml(Append(dir, "Cargo.toml"))
  IN IF cargo = Undefined
     THEN ProjectInfo("rust", <<>>, Undefined, Undefined, Undefined, Undefined)
     ELSE ProjectInfo("rust",
            parseDependencies(cargo, <<"dependencies">>, FALSE)
              \o parseDependencies(cargo, <<"dev-dependencies">>, TRUE)
              \o parseDependencies(cargo, <<"build-dependencies">>, TRUE),
            Undefined, Undefined, Undefined,
            Some([ name |-> PackageField(cargo, "name"),
                   edition |-> PackageField(cargo, "edition"),
                   rustVersion |-> PackageField(cargo, "rust-version") ]))

-----------------------------------------------------------------------------
(* parsers/python.ts                                                       *)
(*                                                                         *)
(* A requirement line is modelled after trim() and the first regular       *)
(* expression: [kind |-> "blank" | "comment" | "include" | "option" |     *)
(* "req" | "other"]; an "include" line starts with "-r", an "option" line  *)
(* with "-" and another letter;                                            *)
(* a "req" line holds the name the expression captures and the version     *)
(* clauses that follow it, each [op, version, digit] where digit says that *)
(* the text after the operator starts with a digit.  An "other" line       *)
(* starts with a character a name cannot start with.                       *)

\* match[2].match(/[=<>~!]+\s*([0-9][^\s,;]*)/): the first clause whose
\* version starts with a digit
VersionMatch(clauses) ==
  LET hits == SelectSeq(clauses, LAMBDA c : c.digit)
  IN IF hits = <<>> THEN "latest" ELSE hits[1].version

parseRequirementLine(line) ==
  IF line.kind \in {"blank", "comment", "include", "option"} THEN Undefined
  ELSE IF line.kind # "req" THEN Undefined
  ELSE Some(Dependency(line.name, VersionMatch(line.clauses), FALSE, FALSE))

\* The dependencies of a list of requirement lines, nulls dropped.
RECURSIVE RequirementDeps(_, _)
RequirementDeps(lines, isDev) ==
  IF lines = <<>> THEN <<>>
  ELSE LET dep == parseRequirementLine(Head(lines))
           rest == RequirementDeps(Tail(lines), isDev)
       IN IF dep = Undefined THEN rest
          ELSE <<[dep[1] EXCEPT !.isDev = isDev]>> \o rest

parseRequirementsTxt(dir) ==
  LET content == readText(Append(dir, "requirements.txt"))
  IN IF Falsy(content) THEN <<>>
     ELSE RequirementDeps(content[1].lines, FALSE)

\* buildBackend.includes(word), for the backends the model uses
BackendWords ==
  ("poetry.core.masonry.api" :> {"poetry"}) @@
  ("hatchling.build" :> {"hatch"}) @@
  ("flit_core.buildapi" :> {"flit"}) @@
  ("setuptools.build_meta" :> {"setuptools"}) @@
  ("maturin" :> {})

BuildSystemOf(backend) ==
  IF backend = Undefined \/ backend[1].t # "string" THEN Undefined
  ELSE LET words == BackendWords[backend[1].v]
       IN IF "poetry" \in words THEN Some("poetry")
          ELSE IF "hatch" \in words THEN Some("hatch")
          ELSE IF "flit" \in words THEN Some("flit")
          ELSE IF "setuptools" \in words THEN Some("setuptools")
          ELSE Undefined

\* value.match(/[0-9.]+/)[0] and value.replace(/[\^~>=<]/g, ""), for the
\* version specifiers the model uses
FirstDigits == (">=3.8" :> "3.8") @@ ("^3.9" :> "3.9") @@ ("^1.2" :> "1.2") @@ ("*" :> "")
StripSpecifier == (">=3.8" :> "3.8") @@ ("^3.9" :> "3.9") @@ ("^1.2" :> "1.2") @@ ("*" :> "*")

\* The version a requires-python / python value gives, when it holds digits
PythonVersionOf(value, fallback) ==
  IF value # Undefined /\ value[1].t = "string" /\ FirstDigits[value[1].v] # ""
  THEN Some(FirstDigits[value[1].v]) ELSE fallback

\* The loop over tool.poetry.dependencies (python.ts lines 96-121); the
\* python entry is skipped.
PoetryDeps(toml, table, isDev, skipPython) ==
  LET deps == TomlEntries(toml, table)
      kept == IF deps = Undefined THEN <<>>
              ELSE SelectSeq(deps[1], LAMBDA e : ~(skipPython /\ e.key = "python"))
      VersionOf(e) ==
        IF e.value.t = "string" THEN StripSpecifier[e.value.v]
        ELSE IF e.value.t = "table" /\ ~isDev
        THEN LET v == TomlValue(toml, Append(table, e.key), "version")
             IN IF v # Undefined /\ v[1].t = "string" THEN StripSpecifier[v[1].v]
                ELSE "latest"
        ELSE "latest"
  IN [ i \in 1..Len(kept) |-> Dependency(kept[i].key, VersionOf(kept[i]), isDev, FALSE) ]

\* An array value's items, <<>> for anything else
ArrayItems(value) ==
  IF value # Undefined /\ value[1].t = "array" THEN value[1].v ELSE <<>>

\* What parsePyproject makes of the parsed file (python.ts lines 52-142)
PyprojectOf(toml) ==
  LET hasProject == toml # Undefined /\ <<"project">> \in DOMAIN toml[1]
      hasPoetry == toml # Undefined /\ <<"tool", "poetry">> \in DOMAIN toml[1]
      backend == BuildSystemOf(TomlValue(toml, <<"build-system">>, "build-backend"))
      projectDeps ==
        IF hasProject
        THEN RequirementDeps(ArrayItems(TomlValue(toml, <<"project">>, "dependencies")), FALSE)
               \o RequirementDeps(
                    ArrayItems(TomlValue(toml, <<"project", "optional-dependencies">>, "dev")),
                    TRUE)
        ELSE <<>>
      projectVersion ==
        IF hasProject
        THEN PythonVersionOf(TomlValue(toml, <<"project">>, "requires-python"), Undefined)
        ELSE Undefined
      poetryDeps ==
        IF hasPoetry
        THEN PoetryDeps(toml, <<"tool", "poetry", "dependencies">>, FALSE, TRUE)
               \o PoetryDeps(toml, <<"tool", "poetry", "group", "dev", "dependencies">>,
                             TRUE, FALSE)
        ELSE <<>>
      poetryVersion ==
        IF hasPoetry
        THEN PythonVersionOf(TomlValue(toml, <<"tool", "poetry", "dependencies">>, "python"),
                             projectVersion)
        ELSE projectVersion
  IN IF toml = Undefined
     THEN [deps |-> <<>>, pythonVersion |-> Undefined, buildSystem |-> Undefined]
     ELSE [ deps |-> projectDeps \o poetryDeps,
            pythonVersion |-> poetryVersion,
            buildSystem |-> IF hasPoetry THEN Some("poetry") ELSE backend ]

parsePyproject(dir) == PyprojectOf(readToml(Append(dir, "pyproject.toml")))

\* The loop over a Pipfile table (python.ts lines 151-181)
PipfileDeps(toml, table, isDev) ==
  LET deps == TomlEntries(toml, table)
      VersionOf(e) ==
        IF e.value.t \in {"string", "raw"} /\ e.value.v # "*" THEN e.value.v
        ELSE "latest"
  IN IF deps = Undefined THEN <<>>
     ELSE [ i \in 1..Len(deps[1]) |->
              Dependency(deps[1][i].key, VersionOf(deps[1][i]), isDev, FALSE) ]

parsePipfile(dir) ==
  LET toml == readToml(Append(dir, "Pipfile"))
  IN IF toml = Undefined THEN <<>>
     ELSE PipfileDeps(toml, <<"packages">>, FALSE)
            \o PipfileDeps(toml, <<"dev-packages">>, TRUE)

\* A choice of source that prefers requirements.txt
PythonSourcePipFirst(dir) ==
  IF exists(Append(dir, "requirements.txt")) THEN "pip"
  ELSE IF exists(Append(dir, "pyproject.toml")) THEN "pyproject"
  ELSE IF exists(Append(dir, "Pipfile")) THEN "pipenv"
  ELSE "none"

\* The first source of dependencies that exists (python.ts lines 191-204)
PythonSource(dir) ==
  IF exists(Append(dir, "pyproject.toml")) THEN "pyproject"
  ELSE IF exists(Append(dir, "Pipfile")) THEN "pipenv"
  ELSE IF exists(Append(dir, "requirements.txt")) THEN "pip"
  ELSE "none"

\* The result of parsePythonProject for a source, the parsed pyproject.toml
\* and the content of .python-version
PythonProject(dir, source, pyproject, pythonVersionFile) ==
  ProjectInfo("python",
    IF source = "pyproject" THEN pyproject.deps
    ELSE IF source = "pipenv" THEN parsePipfile(dir)
    ELSE IF source = "pip" THEN parseRequirementsTxt(dir)
    ELSE <<>>,
    Undefined,
    Some([ pythonVersion |->
             IF ~Falsy(pythonVersionFile) THEN Some(pythonVersionFile[1].lines[1])
             ELSE IF source = "pyproject" THEN pyproject.pythonVersion
             ELSE Undefined,
           buildSystem |->
             IF source = "pyproject" THEN pyproject.buildSystem
             ELSE IF source = "none" THEN Undefined
             ELSE Some(source) ]),
    Undefined, Undefined)

parsePythonProject(dir) ==
  PythonProject(dir, PythonSource(dir), parsePyproject(dir),
                readText(Append(dir, ".python-version")))

\* parsers/index.ts: parseProject
parseProject(dir, type) ==
  IF type = "node" THEN parseNodeProject(dir)
  ELSE IF type = "python" THEN parsePythonProject(dir)
  ELSE IF type = "go" THEN parseGoProject(dir)
  ELSE IF type = "rust" THEN parseRustProject(dir)
  ELSE ProjectInfo(type, <<>>, Undefined, Undefined, Undefined, Undefined)

-----------------------------------------------------------------------------
(* monorepo/detect.ts                                                      *)
(*                                                                         *)
(* A workspace pattern is the sequence of its "/"-separated segments.      *)

WorkspacePackage(name, path, type) == [name |-> name, path |-> path, type |-> type]
MonorepoInfo(type, packages) == Some([type |-> type, packages |-> packages])

\* segment.replace(/\*$/, ""), for the segments the model uses
StripStar(segment) ==
  IF segment = "*" THEN ""
  ELSE IF segment = "pkg*" THEN "pkg"
  ELSE segment

\* pattern.replace(/\/\*$/, "").replace(/\*$/, "")
CleanPattern(pattern) ==
  LET first == IF Len(pattern) >= 2 /\ pattern[Len(pattern)] = "*"
               THEN SubSeq(pattern, 1, Len(pattern) - 1)
               ELSE pattern
  IN IF first = <<>> THEN <<>>
     ELSE [first EXCEPT ![Len(first)] = StripStar(@)]

\* path.join(dir, pattern): empty segments vanish
Join(dir, segments) == dir \o SelectSeq(segments, LAMBDA x : x # "")

\* A name that is always the directory's
PackageNameOfDirectory(pkgJson, fallback) == Spelling[fallback]

\* pkgJson?.name || item.name
PackageName(pkgJson, fallback) ==
  LET name == Get(pkgJson, "name")
  IN IF name = Undefined \/ name[1] = "" THEN Spelling[fallback] ELSE Spelling[name[1]]

\* The subdirectories of a directory, in directory order; none when readdir
\* throws
SubdirNames(packagesDir) ==
  IF ReaddirThrows(packagesDir) THEN <<>>
  ELSE SortNames({ n \in readdir(packagesDir) : isDirectory(Append(packagesDir, n)) })

\* One package per subdirectory
NamedPackages(packagesDir, base, names) ==
  [ i \in 1..Len(names) |->
      WorkspacePackage(
        PackageName(readJson(Join(packagesDir, <<names[i], "package.json">>)), names[i]),
        RelativePath(Join(<<>>, Append(base, names[i]))),
        Undefined) ]

\* The loop over the items of one directory (detect.ts lines 24-35): one
\* package per subdirectory; nothing when readdir throws.
SubdirPackages(dir, base) ==
  NamedPackages(Join(dir, base), base, SubdirNames(Join(dir, base)))

RECURSIVE findPackagesFromGlobs(_, _)
findPackagesFromGlobs(dir, patterns) ==
  IF patterns = <<>> THEN <<>>
  ELSE LET cleanPattern == CleanPattern(Head(patterns))
           rest == findPackagesFromGlobs(dir, Tail(patterns))
       IN IF ~exists(Join(dir, cleanPattern)) THEN rest
          ELSE SubdirPackages(dir, cleanPattern) \o rest

detectNpmWorkspaces(dir) ==
  LET pkg == readJson(Append(dir, "package.json"))
      workspaces == Get(pkg, "workspaces")
      patterns == IF workspaces[1].isArray THEN workspaces[1].items
                  ELSE IF Get(workspaces, "packages") = Undefined THEN <<>>
                  ELSE workspaces[1].packages
  IN IF workspaces = Undefined THEN Undefined
     ELSE MonorepoInfo("npm-workspaces", findPackagesFromGlobs(dir, patterns))

\* A line of pnpm-workspace.yaml after trim():
\* [kind |-> "packages"] for "packages:", [kind |-> "item", pattern] for
\* "- pattern", [kind |-> "dash"] for another line starting with "-",
\* [kind |-> "blank"], [kind |-> "other"].
RECURSIVE PnpmPatterns(_, _)
PnpmPatterns(lines, inPackages) ==
  IF lines = <<>> THEN <<>>
  ELSE LET line == Head(lines)
       IN IF line.kind = "packages" THEN PnpmPatterns(Tail(lines), TRUE)
          ELSE IF inPackages /\ line.kind = "item"
            THEN <<line.pattern>> \o PnpmPatterns(Tail(lines), inPackages)
          ELSE IF inPackages /\ line.kind \notin {"item", "dash", "blank"}
            THEN PnpmPatterns(Tail(lines), FALSE)
          ELSE PnpmPatterns(Tail(lines), inPackages)

detectPnpmWorkspace(dir) ==
  LET content == readText(Append(dir, "pnpm-workspace.yaml"))
  IN IF Falsy(content) THEN Undefined
     ELSE MonorepoInfo("pnpm",
            findPackagesFromGlobs(dir, PnpmPatterns(content[1].lines, FALSE)))

\* found || otherwise
OrElse(found, otherwise) == IF found # Undefined THEN found ELSE otherwise

\* The packages of a workspace result under the type "turbo"
Relabel(found) ==
  IF found = Undefined THEN Undefined ELSE MonorepoInfo("turbo", found[1].packages)

\* A Turborepo check that asks the pnpm workspace first
detectTurboPnpmFirst(dir) ==
  IF ~exists(Append(dir, "turbo.json")) THEN Undefined
  ELSE OrElse(Relabel(detectPnpmWorkspace(dir)), Relabel(detectNpmWorkspaces(dir)))

detectTurbo(dir) ==
  IF ~exists(Append(dir, "turbo.json")) THEN Undefined
  ELSE OrElse(Relabel(detectNpmWorkspaces(dir)), Relabel(detectPnpmWorkspace(dir)))

RECURSIVE NxPackages(_, _)
NxPackages(dir, subdirs) ==
  IF subdirs = <<>> THEN <<>>
  ELSE LET rest == NxPackages(dir, Tail(subdirs))
       IN IF ~exists(Append(dir, Head(subdirs))) THEN rest
          ELSE SubdirPackages(dir, <<Head(subdirs)>>) \o rest

detectNx(dir) ==
  IF ~exists(Append(dir, "nx.json")) THEN Undefined
  ELSE MonorepoInfo("nx", NxPackages(dir, <<"packages", "apps", "libs">>))

detectLerna(dir) ==
  LET lernaJson == readJson(Append(dir, "lerna.json"))
      packages == Get(lernaJson, "packages")
      patterns == IF packages = Undefined THEN << <<"packages", "*">> >>
                  ELSE packages[1]
  IN IF lernaJson = Undefined THEN Undefined
     ELSE MonorepoInfo("lerna", findPackagesFromGlobs(dir, patterns))

\* The words of a line joined by single blanks: the characters of the
\* trimmed text
RECURSIVE JoinWords(_)
JoinWords(words) ==
  IF words = <<>> THEN <<>>
  ELSE IF Len(words) = 1 THEN Spelling[words[1]]
  ELSE Spelling[words[1]] \o <<" ">> \o JoinWords(Tail(words))

\* The loop of detectGoWorkspace over the lines of go.work (lines 158-188)
RECURSIVE GoWorkLoop(_, _)
GoWorkLoop(lines, inUse) ==
  IF lines = <<>> THEN <<>>
  ELSE LET words == Head(lines)
           rest(flag) == GoWorkLoop(Tail(lines), flag)
       IN IF words = <<"use", "(">> THEN rest(TRUE)
          ELSE IF words = <<")">> /\ inUse THEN rest(FALSE)
          ELSE IF StartsWithWord(words, "use") /\ ~IncludesParen(words)
            THEN <<WorkspacePackage(JoinWords(Tail(words)), JoinWords(Tail(words)),
                                    Some("go"))>> \o rest(inUse)
          ELSE IF inUse /\ words # <<>>
            THEN <<WorkspacePackage(JoinWords(words), JoinWords(words), Some("go"))>>
                   \o rest(inUse)
          ELSE rest(inUse)

detectGoWorkspace(dir) ==
  LET content == readText(Append(dir, "go.work"))
  IN IF Falsy(content) THEN Undefined
     ELSE MonorepoInfo("go-workspace", GoWorkLoop(content[1].lines, FALSE))

\* cargoToml?.package?.name || fallback (detect.ts lines 217-231)
CrateName(path, fallback) ==
  LET name == TomlValue(readToml(Append(path, "Cargo.toml")), <<"package">>, "name")
  IN IF name = Undefined \/ name[1].v = "" THEN fallback ELSE Spelling[name[1].v]

\* One package per subdirectory of a member that ends in "/*"
CratePackages(memberDir, memberPath, names) ==
  [ i \in 1..Len(names) |->
      WorkspacePackage(CrateName(Append(memberDir, names[i]), Spelling[names[i]]),
                       RelativePath(Append(memberPath, names[i])),
                       Some("rust")) ]

\* The member without its last segment "*"
MemberPath(member) == SubSeq(member, 1, Len(member) - 1)

\* The packages of one workspace member (detect.ts lines 205-236); a member
\* is a pattern, "/*" being a last segment "*".
CargoMemberPackages(dir, member) ==
  IF Len(member) >= 2 /\ member[Len(member)] = "*"
  THEN IF ~exists(Join(dir, MemberPath(member))) THEN <<>>
       ELSE CratePackages(Join(dir, MemberPath(member)), MemberPath(member),
                          SubdirNames(Join(dir, MemberPath(member))))
  ELSE <<WorkspacePackage(CrateName(Join(dir, member), RelativePath(member)),
                          RelativePath(member), Some("rust"))>>

RECURSIVE CargoPackages(_, _)
CargoPackages(dir, members) ==
  IF members = <<>> THEN <<>>
  ELSE CargoMemberPackages(dir, Head(members)) \o CargoPackages(dir, Tail(members))

\* workspace.members is taken to be an array when it is present.
detectCargoWorkspace(dir) ==
  LET cargo == readToml(Append(dir, "Cargo.toml"))
      members == TomlValue(cargo, <<"workspace">>, "members")
  IN IF cargo = Undefined \/ members = Undefined THEN Undefined
     ELSE MonorepoInfo("cargo-workspace", CargoPackages(dir, ArrayItems(members)))

\* The strategies in the order detectMonorepo tries them.
Strategy(dir, i) ==
  CASE i = 1 -> detectTurbo(dir)
    [] i = 2 -> detectNx(dir)
    [] i = 3 -> detectLerna(dir)
    [] i = 4 -> detectPnpmWorkspace(dir)
    [] i = 5 -> detectNpmWorkspaces(dir)
    [] i = 6 -> detectGoWorkspace(dir)
    [] i = 7 -> detectCargoWorkspace(dir)

\* A cascade that tries the npm workspaces before the pnpm workspace.
detectMonorepoNpmFirst(dir) ==
  OrElse(detectTurbo(dir),
  OrElse(detectNx(dir),
  OrElse(detectLerna(dir),
  OrElse(detectNpmWorkspaces(dir),
  OrElse(detectPnpmWorkspace(dir),
  OrElse(detectGoWorkspace(dir),
         detectCargoWorkspace(dir)))))))

detectMonorepo(dir) ==
  OrElse(detectTurbo(dir),
  OrElse(detectNx(dir),
  OrElse(detectLerna(dir),
  OrElse(detectPnpmWorkspace(dir),
  OrElse(detectNpmWorkspaces(dir),
  OrElse(detectGoWorkspace(dir),
         detectCargoWorkspace(dir)))))))

-----------------------------------------------------------------------------
(* core/scanner.ts: scan                                                   *)

ScanOptions(ignore, includeAll, depth, focus) ==
  [ignore |-> ignore, includeAll |-> includeAll, depth |-> depth, focus |-> focus]

\* scan({dir}): every other option undefined
DefaultOptions == ScanOptions(<<>>, FALSE, Undefined, <<>>)

\* A scan that catches the failure of the walk and returns no entries.
scanCatchingWalk(opts) ==
  LET walk == scanDirectory(Root, IgnoreRules(opts), 0, opts.depth, opts.focus)
  IN [ thrown |-> FALSE,
       value |-> Some([ root |-> Root,
                        entries |-> IF walk.thrown THEN <<>> ELSE walk.entries,
                        projectInfo |-> parseProject(Root, detectProjectType(Root)),
                        monorepo |-> detectMonorepo(Root) ]) ]

\* scan(options): [thrown, value]; value is the ScanResult when nothing is thrown
scan(opts) ==
  LET dir == Root
      ig == IgnoreRules(opts)
      walk == scanDirectory(dir, ig, 0, opts.depth, opts.focus)
      projectType == detectProjectType(dir)
  IN IF walk.thrown THEN [thrown |-> TRUE, value |-> Undefined]
     ELSE [ thrown |-> FALSE,
            value |-> Some([ root |-> dir,
                             entries |-> walk.entries,
                             projectInfo |-> parseProject(dir, projectType),
                             monorepo |-> detectMonorepo(dir) ]) ]

-----------------------------------------------------------------------------
(* Text                                                                    *)
(*                                                                         *)
(* A text is the sequence of its pieces; a piece is [s, units, bytes]: a   *)
(* run of characters with its length in UTF-16 code units (String.length)  *)
(* and in UTF-8 bytes (Buffer.byteLength).                                 *)

Piece(s, units, bytes) == [s |-> s, units |-> units, bytes |-> bytes]
\* An ASCII literal of the source, with its length
Lit(s, n) == Piece(s, n, n)
\* A name or another ASCII string of the input
Str(s) == Lit(s, Len(Spelling[s]))
\* The characters of a relative path
Chars(cs) == Piece(cs, Len(cs), Len(cs))
NL == Lit("\n", 1)

RECURSIVE DigitCount(_)
DigitCount(n) == IF n < 10 THEN 1 ELSE 1 + DigitCount(n \div 10)
\* A non-negative integer in decimal
Num(n) == Piece(ToString(n), DigitCount(n), DigitCount(n))

\* The sum of one field over the pieces from..to of a text
RECURSIVE SumOver(_, _, _, _)
SumOver(text, field, from, to) ==
  IF from > to THEN 0
  ELSE IF from = to THEN text[from][field]
  ELSE LET mid == (from + to) \div 2
       IN SumOver(text, field, from, mid) + SumOver(text, field, mid + 1, to)

\* text.length
Length(text) == SumOver(text, "units", 1, Len(text))
\* Buffer.byteLength(text, "utf-8")
byteLength(text) == SumOver(text, "bytes", 1, Len(text))

\* An estimate that rounds down
estimateTokensFloor(text) == Length(text) \div 4

\* core/tokens.ts: Math.ceil(text.length / 4)
estimateTokens(text) == (Length(text) + 3) \div 4

ContextResult(text) ==
  [text |-> text, bytes |-> byteLength(text), tokens |-> estimateTokens(text)]

-----------------------------------------------------------------------------
(* formatters/toon.ts and formatters/tree.ts                               *)

\* "  ".repeat(depth)
Spaces(n) == Piece(" ", n, n)

\* entry.isDirectory ? entry.name + "/" : entry.name
DisplayName(entry) ==
  IF entry.isDirectory THEN <<Str(entry.name), Lit("/", 1)>> ELSE <<Str(entry.name)>>

RECURSIVE formatToon(_)
formatToon(entries) ==
  IF entries = <<>> THEN <<>>
  ELSE <<Spaces(2 * Head(entries).depth)>> \o DisplayName(Head(entries)) \o <<NL>>
         \o formatToon(Tail(entries))

\* The glyph tables, for the names the model uses: SPECIAL_FILES first,
\* then FILE_EMOJIS by extension, then the default.
SPECIAL_FILES ==
  (".gitignore" :> Piece("eye", 3, 7)) @@ ("package.json" :> Piece("package", 2, 4))
    @@ ("Cargo.toml" :> Piece("package", 2, 4)) @@ ("go.mod" :> Piece("package", 2, 4))
    @@ ("pyproject.toml" :> Piece("package", 2, 4))
    @@ ("requirements.txt" :> Piece("package", 2, 4)) @@ ("Pipfile" :> Piece("package", 2, 4))
    @@ ("tsconfig.json" :> Piece("gear", 2, 6))
FILE_EMOJIS ==
  (".json" :> Piece("gear", 2, 6)) @@ (".yaml" :> Piece("gear", 2, 6))
    @@ (".toml" :> Piece("gear", 2, 6)) @@ (".py" :> Piece("snake", 2, 4))
    @@ (".lock" :> Piece("lock", 2, 4))
\* path.extname(name), for the names the model uses
extname ==
  ("turbo.json" :> ".json") @@ ("nx.json" :> ".json") @@ ("lerna.json" :> ".json")
    @@ ("pnpm-workspace.yaml" :> ".yaml") @@ ("setup.py" :> ".py")
    @@ ("m.pyc" :> ".pyc") @@ ("go.work" :> ".work") @@ ("yarn.lock" :> ".lock")

getEmoji(entry) ==
  IF entry.isDirectory THEN Piece("folder", 2, 4)
  ELSE IF entry.name \in DOMAIN SPECIAL_FILES THEN SPECIAL_FILES[entry.name]
  ELSE IF entry.name \in DOMAIN extname /\ extname[entry.name] \in DOMAIN FILE_EMOJIS
    THEN FILE_EMOJIS[extname[entry.name]]
  ELSE Piece("page", 2, 4)

\* relativePath.split("/").slice(0, -1).join("/")
RECURSIVE ParentPath(_)
ParentPath(relativePath) ==
  IF relativePath = <<>> THEN <<>>
  ELSE IF relativePath[Len(relativePath)] = "/"
    THEN SubSeq(relativePath, 1, Len(relativePath) - 1)
  ELSE ParentPath(SubSeq(relativePath, 1, Len(relativePath) - 1))

\* buildTree (tree.ts lines 198-218) as the parent of each entry: 0 for a
\* root node, the index of the node the map holds for the parent path when
\* the entry is reached, -1 when the map holds none (the node is attached
\* nowhere).
\* A node map keyed by the names of the entries
ParentIndexByName(entries, j) ==
  IF entries[j].depth = 0 THEN 0
  ELSE LET earlier == { i \in 1..(j - 1) :
                          Spelling[entries[i].name] = ParentPath(entries[j].relativePath) }
       IN IF earlier = {} THEN -1
          ELSE CHOOSE i \in earlier : \A k \in earlier : k <= i

ParentIndex(entries, j) ==
  IF entries[j].depth = 0 THEN 0
  ELSE LET earlier == { i \in 1..(j - 1) :
                          entries[i].relativePath = ParentPath(entries[j].relativePath) }
       IN IF earlier = {} THEN -1
          ELSE CHOOSE i \in earlier : \A k \in earlier : k <= i

\* node.children, as indices in insertion order (0 stands for the root list)
ChildrenOf(entries, parent) ==
  SelectSeq([ j \in 1..Len(entries) |-> j ],
            LAMBDA j : ParentIndex(entries, j) = parent)

\* Guides drawn the other way round
GuideUnderLast(isLast) == IF isLast THEN Piece("|   ", 4, 6) ELSE Lit("    ", 4)

Guide(isLast) == IF isLast THEN Lit("    ", 4) ELSE Piece("|   ", 4, 6)
Connector(isLast) == IF isLast THEN Piece("+-- ", 4, 10) ELSE Piece("|-- ", 4, 10)

RECURSIVE renderNode(_, _, _, _, _)
RECURSIVE RenderChildren(_, _, _, _, _)

\* The loop over node.children (tree.ts lines 238-242)
RenderChildren(entries, children, i, prefix, useEmoji) ==
  IF i > Len(children) THEN <<>>
  ELSE renderNode(entries, children[i], prefix, i = Len(children), useEmoji)
         \o RenderChildren(entries, children, i + 1, prefix, useEmoji)

renderNode(entries, node, prefix, isLast, useEmoji) ==
  prefix \o <<Connector(isLast)>>
    \o (IF useEmoji THEN <<getEmoji(entries[node]), Lit(" ", 1)>> ELSE <<>>)
    \o DisplayName(entries[node]) \o <<NL>>
    \o RenderChildren(entries, ChildrenOf(entries, node), 1,
                      Append(prefix, Guide(isLast)), useEmoji)

formatTree(entries, useEmoji) ==
  RenderChildren(entries, ChildrenOf(entries, 0), 1, <<>>, useEmoji)

-----------------------------------------------------------------------------
(* formatters/json.ts                                                      *)
(*                                                                         *)
(* A JSON value is [t |-> "str", p |-> piece], [t |-> "num", n],           *)
(* [t |-> "bool", b], [t |-> "arr", items] or [t |-> "obj", fields], the   *)
(* fields being <<key, value>> pairs in insertion order.                   *)

JStr(piece) == [t |-> "str", p |-> piece]
JNum(n) == [t |-> "num", n |-> n]
JBool(b) == [t |-> "bool", b |-> b]
JArr(items) == [t |-> "arr", items |-> items]
JObj(fields) == [t |-> "obj", fields |-> fields]

Quoted(piece) == <<Lit("\"", 1), piece, Lit("\"", 1)>>

RECURSIVE JsonLines(_, _)
RECURSIVE JsonMembers(_, _, _, _)

\* The members of an array or object, one after the other, each starting on
\* its own line at the indentation ind and followed by "," unless it is the last.
JsonMembers(members, isObject, i, ind) ==
  IF i > Len(members) THEN <<>>
  ELSE LET value == IF isObject THEN members[i][2] ELSE members[i]
           key == IF isObject THEN Quoted(Lit(members[i][1], members[i][3])) \o <<Lit(": ", 2)>>
                  ELSE <<>>
           lines == JsonLines(value, ind)
           first == <<Spaces(ind)>> \o key \o lines[1]
           all == <<first>> \o Tail(lines)
           closed == IF i < Len(members)
                     THEN [all EXCEPT ![Len(all)] = Append(@, Lit(",", 1))]
                     ELSE all
       IN closed \o JsonMembers(members, isObject, i + 1, ind)

\* JSON.stringify(value, null, 2), as lines; the first line carries no indentation.
JsonLines(value, ind) ==
  CASE value.t = "str" -> << Quoted(value.p) >>
    [] value.t = "num" -> << <<Num(value.n)>> >>
    [] value.t = "bool" -> << <<IF value.b THEN Lit("true", 4) ELSE Lit("false", 5)>> >>
    [] value.t = "arr" ->
         IF value.items = <<>> THEN << <<Lit("[]", 2)>> >>
         ELSE << <<Lit("[", 1)>> >> \o JsonMembers(value.items, FALSE, 1, ind + 2)
                \o << <<Spaces(ind), Lit("]", 1)>> >>
    [] value.t = "obj" ->
         IF value.fields = <<>> THEN << <<Lit("{}", 2)>> >>
         ELSE << <<Lit("{", 1)>> >> \o JsonMembers(value.fields, TRUE, 1, ind + 2)
                \o << <<Spaces(ind), Lit("}", 1)>> >>

\* The lines joined by "\n"
RECURSIVE JoinRange(_, _, _)
JoinRange(lines, from, to) ==
  IF from > to THEN <<>>
  ELSE IF from = to THEN lines[from]
  ELSE LET mid == (from + to) \div 2
       IN JoinRange(lines, from, mid) \o <<NL>> \o JoinRange(lines, mid + 1, to)

JoinLines(lines) == JoinRange(lines, 1, Len(lines))

stringify(value) == JoinLines(JsonLines(value, 0))

\* A key of an object literal with its length
Key(name, n, value) == <<name, value, n>>

\* The keys parseTSConfig copies, in the order it copies them
TSConfigKeys ==
  << <<"paths", 5>>, <<"baseUrl", 7>>, <<"target", 6>>, <<"module", 6>>,
     <<"strict", 6>>, <<"jsx", 3>>, <<"references", 10>> >>

TSConfigJson(tsconfig) ==
  LET present == SelectSeq(TSConfigKeys, LAMBDA k : k[1] \in DOMAIN tsconfig)
  IN JObj([ i \in 1..Len(present) |->
              Key(present[i][1], present[i][2], tsconfig[present[i][1]]) ])

\* One element of structure (part_006 lines 39-44); JSON.stringify leaves
\* out a size that is undefined
StructureItem(e) ==
  JObj(<< Key("path", 4, JStr(Chars(e.relativePath))),
          Key("type", 4, JStr(IF e.isDirectory THEN Lit("directory", 9)
                              ELSE Lit("file", 4))),
          Key("depth", 5, JNum(e.depth)) >>
       \o (IF e.size = Undefined THEN <<>>
           ELSE << Key("size", 4, JNum(e.size[1])) >>))

\* A structure that leaves out the entries whose size is unknown
StructureOfSized(entries) ==
  [ i \in 1..Len(SelectSeq(entries, LAMBDA e : e.size # Undefined)) |->
      StructureItem(SelectSeq(entries, LAMBDA e : e.size # Undefined)[i]) ]

\* result.entries.map(...)
Structure(entries) == [ i \in 1..Len(entries) |-> StructureItem(entries[i]) ]

\* The output object of formatJson with the given meta block
JsonOutput(result, bytes, tokens) ==
  LET info == result.projectInfo
      monorepo ==
        IF result.monorepo = Undefined THEN <<>>
        ELSE << Key("monorepo", 8, JObj(<<
                  Key("type", 4, JStr(Str(result.monorepo[1].type))),
                  Key("packages", 8, JArr(
                    [ i \in 1..Len(result.monorepo[1].packages) |->
                        JObj(<< Key("name", 4, JStr(Chars(result.monorepo[1].packages[i].name))),
                                Key("path", 4, JStr(Chars(result.monorepo[1].packages[i].path))) >>)
                    ])) >>)) >>
      dependencies ==
        [ i \in 1..Len(info.dependencies) |->
            LET d == info.dependencies[i]
            IN JObj(<< Key("name", 4, JStr(Str(d.name))),
                       Key("version", 7, JStr(Str(d.version))),
                       Key("dev", 3, JBool(d.isDev)),
                       Key("indirect", 8, JBool(d.isIndirect)) >>) ]
      config ==
        IF info.node = Undefined \/ info.node[1].tsconfig = Undefined THEN <<>>
        ELSE << Key("config", 6,
                    JObj(<< Key("tsconfig", 8, TSConfigJson(info.node[1].tsconfig[1])) >>)) >>
  IN JObj(<< Key("project", 7, JObj(<< Key("type", 4, JStr(Str(info.type))) >> \o monorepo)),
             Key("structure", 9, JArr(Structure(result.entries))),
             Key("dependencies", 12, JArr(dependencies)),
             Key("meta", 4, JObj(<< Key("bytes", 5, JNum(bytes)),
                                    Key("tokens", 6, JNum(tokens)) >>)) >>
          \o config)

\* A formatJson that returns the sizes of the first serialization.
formatJsonFirstSizes(result) ==
  [ text |-> stringify(JsonOutput(result, byteLength(stringify(JsonOutput(result, 0, 0))),
                                  estimateTokens(stringify(JsonOutput(result, 0, 0))))),
    bytes |-> byteLength(stringify(JsonOutput(result, 0, 0))),
    tokens |-> estimateTokens(stringify(JsonOutput(result, 0, 0))) ]

formatJson(result) ==
  LET text == stringify(JsonOutput(result, 0, 0))
      finalText == stringify(JsonOutput(result, byteLength(text), estimateTokens(text)))
  IN ContextResult(finalText)

-----------------------------------------------------------------------------
(* core/context.ts                                                         *)

DirectListed == 20
DevListed == 10

formatProjectHeader(result) ==
  LET info == result.projectInfo
      node == IF info.node = Undefined THEN <<>>
              ELSE <<Lit(" (", 2), Str(info.node[1].packageManager), Lit(")", 1)>>
                     \o (IF info.node[1].tsconfig # Undefined
                         THEN <<Lit(" [typescript]", 13)>> ELSE <<>>)
      python == IF info.python = Undefined \/ info.python[1].buildSystem = Undefined THEN <<>>
                ELSE <<Lit(" (", 2), Str(info.python[1].buildSystem[1]), Lit(")", 1)>>
      go == IF info.go = Undefined \/ info.go[1].goVersion = Undefined THEN <<>>
            ELSE <<Lit(" (go ", 5), Chars(JoinWords(info.go[1].goVersion[1])), Lit(")", 1)>>
      rust == IF info.rust = Undefined \/ info.rust[1].edition = Undefined THEN <<>>
              ELSE <<Lit(" (edition ", 10), Str(info.rust[1].edition[1]), Lit(")", 1)>>
      monorepo == IF result.monorepo = Undefined THEN <<>>
                  ELSE <<Lit("Monorepo: ", 10), Str(result.monorepo[1].type), Lit(" (", 2),
                         Num(Len(result.monorepo[1].packages)), Lit(" packages)", 10), NL>>
  IN <<Lit("Project: ", 9), Str(info.type)>> \o node \o python \o go \o rust \o <<NL>>
       \o monorepo

\* The lines "  name: version" of the first n dependencies of a list
RECURSIVE DependencyLines(_, _)
DependencyLines(deps, n) ==
  IF deps = <<>> \/ n = 0 THEN <<>>
  ELSE <<Lit("  ", 2), Str(Head(deps).name), Lit(": ", 2), Str(Head(deps).version), NL>>
         \o DependencyLines(Tail(deps), n - 1)

\* One section of formatDependencies: a heading, the first n lines, the rest counted
DependencySection(heading, n, deps, listed) ==
  IF deps = <<>> THEN <<>>
  ELSE <<NL, Lit(heading, n), Num(Len(deps)), Lit("):", 2), NL>>
         \o DependencyLines(deps, listed)
         \o (IF Len(deps) > listed
             THEN <<Lit("  ... and ", 10), Num(Len(deps) - listed), Lit(" more", 5), NL>>
             ELSE <<>>)

formatDependencies(deps) ==
  LET directDeps == SelectSeq(deps, LAMBDA d : ~d.isDev /\ ~d.isIndirect)
      devDeps == SelectSeq(deps, LAMBDA d : d.isDev)
      indirectDeps == SelectSeq(deps, LAMBDA d : d.isIndirect)
  IN DependencySection("Dependencies (", 14, directDeps, DirectListed)
       \o DependencySection("Dev Dependencies (", 18, devDeps, DevListed)
       \o (IF indirectDeps = <<>> THEN <<>>
           ELSE <<NL, Lit("Indirect Dependencies: ", 23), Num(Len(indirectDeps)), NL>>)

\* The tsconfig block; an alias of paths is shown with its first target
formatTSConfig(result) ==
  LET node == result.projectInfo.node
      tsconfig == node[1].tsconfig[1]
      Has(k) == k \in DOMAIN tsconfig
      paths == IF Has("paths") /\ tsconfig["paths"].fields # <<>>
               THEN <<Lit("  paths:", 8), NL>>
                      \o JoinLines([ i \in 1..Len(tsconfig["paths"].fields) |->
                           <<Lit("    ", 4),
                             Lit(tsconfig["paths"].fields[i][1], tsconfig["paths"].fields[i][3]),
                             Lit(": ", 2),
                             tsconfig["paths"].fields[i][2].items[1].p>> ])
                      \o <<NL>>
               ELSE <<>>
      target == IF Has("target") THEN <<Lit("  target: ", 10), tsconfig["target"].p, NL>>
                ELSE <<>>
      strict == IF Has("strict")
                THEN <<Lit("  strict: ", 10),
                       IF tsconfig["strict"].b THEN Lit("true", 4) ELSE Lit("false", 5), NL>>
                ELSE <<>>
      references == IF Has("references") /\ tsconfig["references"].items # <<>>
                    THEN <<Lit("  references: ", 14), Num(Len(tsconfig["references"].items)),
                           Lit(" projects", 9), NL>>
                    ELSE <<>>
  IN IF node = Undefined \/ node[1].tsconfig = Undefined THEN <<>>
     ELSE <<NL, Lit("tsconfig.json:", 14), NL>> \o paths \o target \o strict \o references

RECURSIVE PackageLines(_)
PackageLines(packages) ==
  IF packages = <<>> THEN <<>>
  ELSE <<Lit("  ", 2), Chars(Head(packages).name), Lit(" (", 2),
         Chars(Head(packages).path), Lit(")", 1), NL>> \o PackageLines(Tail(packages))

formatMonorepoPackages(result) ==
  IF result.monorepo = Undefined THEN <<>>
  ELSE <<NL, Lit("Workspace Packages:", 19), NL>> \o PackageLines(result.monorepo[1].packages)

Error == [status |-> "error", value |-> Undefined]
Ok(value) == [status |-> "ok", value |-> Some(value)]

\* The text buildContext assembles from a ScanResult
ContextText(result, format, useEmoji) ==
  formatProjectHeader(result) \o <<NL>>
    \o (IF format = "toon" THEN formatToon(result.entries)
        ELSE formatTree(result.entries, useEmoji))
    \o formatDependencies(result.projectInfo.dependencies)
    \o formatTSConfig(result)
    \o formatMonorepoPackages(result)

\* The text buildTree assembles from a ScanResult
TreeText(result, format, useEmoji) ==
  IF format = "toon" THEN formatToon(result.entries)
  ELSE formatTree(result.entries, useEmoji)

\* The text buildDeps assembles from a ScanResult
DepsText(result) ==
  formatProjectHeader(result) \o formatDependencies(result.projectInfo.dependencies)

\* What a build returns after its scan: the scan's error propagates
Built(scanned, format, text) ==
  IF scanned.thrown THEN Error
  ELSE IF format = "json" THEN Ok(formatJson(scanned.value[1]))
  ELSE Ok(ContextResult(text))

ContextBuilt(scanned, format, useEmoji) ==
  Built(scanned, format,
        IF scanned.thrown THEN <<>> ELSE ContextText(scanned.value[1], format, useEmoji))

TreeBuilt(scanned, format, useEmoji) ==
  Built(scanned, format,
        IF scanned.thrown THEN <<>> ELSE TreeText(scanned.value[1], format, useEmoji))

DepsBuilt(scanned) ==
  Built(scanned, "text", IF scanned.thrown THEN <<>> ELSE DepsText(scanned.value[1]))

\* const result = await scan(options), then the text
buildContext(opts, format, useEmoji) ==
  CHOOSE built \in { ContextBuilt(scanned, format, useEmoji) : scanned \in {scan(opts)} } : TRUE

buildTree(opts, format, useEmoji) ==
  CHOOSE built \in { TreeBuilt(scanned, format, useEmoji) : scanned \in {scan(opts)} } : TRUE

\* const result = await scan({dir})
buildDeps(dir) ==
  CHOOSE built \in { DepsBuilt(scanned) : scanned \in {scan(DefaultOptions)} } : TRUE

-----------------------------------------------------------------------------
(* The directory trees and the calls of the model                          *)

Dir == [kind |-> "dir", size |-> 64, content |-> [lines |-> <<>>, json |-> Undefined]]
File(content) == [kind |-> "file", size |-> 7, content |-> content]
\* A symbolic link and the path it points to
Link(target) ==
  [kind |-> "link", size |-> 1, content |-> [lines |-> <<>>, json |-> Undefined],
   target |-> target]
Text(lines) == [lines |-> lines, json |-> Undefined]
Json(value) == [lines |-> <<"{}">>, json |-> Some(value)]
InvalidJson == [lines |-> <<"{">>, json |-> Undefined]
Plain == Text(<<"x">>)

\* The tree with the directories dirs and the files of the function files
MakeFs(dirs, files) ==
  [ p \in {Root} \cup dirs \cup DOMAIN files |->
      IF p \in DOMAIN files THEN File(files[p]) ELSE Dir ]

NoFaults == [unlistable |-> {}, unstatable |-> {}, unreadable |-> {}]

PackageJson ==
  [ name |-> "app", version |-> "1.0.0",
    dependencies |-> << <<"react", "^18.0.0">> >>,
    devDependencies |-> << <<"jest", "^29.0.0">>, <<"react", "^18.0.0">> >> ]

\* {"dependencies": {"react": "^18.0.0"}}
ReactOnlyPackageJson == [ dependencies |-> << <<"react", "^18.0.0">> >> ]

\* The tree the scans walk: three levels, directories and files whose names
\* interleave, names that are string prefixes of one another.
TreeDirs == { <<"a">>, <<"a", "a">>, <<"a", "b">>, <<"ab">>, <<"dist">> }
TreeFiles ==
  { <<"a", "a", "b">>, <<"a", "b", "c">>, <<"a", "ab">>, <<"a", "c">>,
    <<"ab", "b">>, <<"dist", "b">>, <<"b">>, <<"m.pyc">> }
Prunable == { <<"a", "a">>, <<"a", "b">>, <<"dist">> }

IsUnder(path, top) == Len(top) <= Len(path) /\ SubSeq(path, 1, Len(top)) = top

GitignoreLines == <<"#x", "", "b">>

ScanTree(removed, gitignore, manifest) ==
  LET Kept(S) == { p \in S : \A r \in removed : ~IsUnder(p, r) }
      plain == [ p \in Kept(TreeFiles) |-> Plain ]
      ignoreFile == IF gitignore THEN (<<".gitignore">> :> Text(GitignoreLines)) ELSE <<>>
      manifestFile == IF manifest THEN (<<"package.json">> :> Json(PackageJson)) ELSE <<>>
  IN MakeFs(Kept(TreeDirs), plain @@ ignoreFile @@ manifestFile)

ScanFaults ==
  { NoFaults,
    [NoFaults EXCEPT !.unlistable = {Root}],
    [NoFaults EXCEPT !.unlistable = {<<"a">>}],
    [NoFaults EXCEPT !.unstatable = {<<"a">>}],
    [NoFaults EXCEPT !.unstatable = {<<"b">>, <<"a", "c">>}] }

Depths == {Undefined} \cup { Some(d) : d \in 0..MaxDepth }
Focuses == { <<>>, <<"a">>, <<"a", "/", "a">>, <<"a", "/", "b">> }
Ignores == { <<>>, <<"c">> }
Formats == {"tree", "toon", "json"}

AllOptions ==
  { ScanOptions(i, all, d, f) : i \in Ignores, all \in BOOLEAN, d \in Depths, f \in Focuses }
BuildOptions ==
  { ScanOptions(<<>>, all, d, f) :
      all \in BOOLEAN, d \in {Undefined, Some(1)},
      f \in {<<>>, <<"a", "/", "a">>, <<"a", "/", "b">>} }

NoCall == [op |-> "none", options |-> DefaultOptions, format |-> "none",
           useEmoji |-> FALSE, type |-> "none"]
NoOutcome == [status |-> "none", value |-> Undefined]

Init ==
  /\ \E removed \in SUBSET Prunable, gitignore \in BOOLEAN, manifest \in BOOLEAN :
       fs = ScanTree(removed, gitignore, manifest)
  /\ faults \in ScanFaults
  /\ pc = "idle"
  /\ call = NoCall
  /\ outcome = NoOutcome
  /\ stdin = <<>> /\ cursor = 0 /\ stdout = <<>>
  /\ tasks = <<>>

Returns(op, opts, format, useEmoji, type, result) ==
  /\ pc = "idle"
  /\ pc' = "done"
  /\ call' = [op |-> op, options |-> opts, format |-> format,
              useEmoji |-> useEmoji, type |-> type]
  /\ outcome' = result
  /\ UNCHANGED <<fs, faults, stdin, cursor, stdout, tasks>>

\* scan(options) rejects or resolves with the ScanResult
Scanned(scanned) == IF scanned.thrown THEN Error ELSE Ok(scanned.value[1])

Scan ==
  \E opts \in AllOptions :
    Returns("scan", opts, "none", FALSE, "none", Scanned(scan(opts)))

BuildTree ==
  \E opts \in BuildOptions, format \in Formats, useEmoji \in BOOLEAN :
    Returns("buildTree", opts, format, useEmoji, "none", buildTree(opts, format, useEmoji))

BuildContext ==
  \E opts \in BuildOptions, format \in Formats, useEmoji \in BOOLEAN :
    Returns("buildContext", opts, format, useEmoji, "none",
            buildContext(opts, format, useEmoji))

BuildDeps ==
  Returns("buildDeps", DefaultOptions, "none", FALSE, "none", buildDeps(Root))

Next == Scan \/ BuildTree \/ BuildContext \/ BuildDeps

Spec == Init /\ [][Next]_vars

-----------------------------------------------------------------------------
(* The project roots of the detection and parsing calls                    *)

Sec(name) == [kind |-> "section", name |-> name]
KV(key, value) == [kind |-> "kv", key |-> key, value |-> value]
Skip == [kind |-> "skip"]
S(v) == [t |-> "string", v |-> v]
Raw(v) == [t |-> "raw", v |-> v]
Arr(items) == [t |-> "array", v |-> items]
Req(name, clauses) == [kind |-> "req", name |-> name, clauses |-> clauses]
Clause(op, version, digit) == [op |-> op, version |-> version, digit |-> digit]

CargoToml ==
  Text(<< Sec(<<"package">>), KV("name", S("core")), KV("edition", S("2021")), Skip,
          Sec(<<"dependencies">>), KV("serde", S("1.0")),
          KV("tokio", Raw("{ version = \"1\" }")),
          Sec(<<"dev-dependencies">>), KV("serde", S("1.0")),
          Sec(<<"build-dependencies">>), KV("serde", S("1.0")) >>)
CargoWorkspaceToml ==
  Text(<< Sec(<<"workspace">>), KV("members", Arr(<< <<"crates", "*">>, <<"core">> >>)) >>)
GoMod ==
  Text(<< <<"module", "example.com/m">>, <<"go", "1.21">>, <<>>,
          <<"require", "(">>,
          <<"github.com/x/y", "v1.2.3", "//", "indirect">>,
          <<"github.com/x/z", "v0.1.0">>,
          <<")">>,
          <<"require", "github.com/x/y", "v1.2.3">> >>)
\* A go.mod with a replace block, an exclude directive, comments, a single-line
\* require that carries the marker, and a line after the require block
GoModBlocks ==
  Text(<< <<"module", "example.com/m">>,
          <<"//x">>,
          <<"replace", "(">>,
          <<"github.com/x/y", "=>", "../y">>,
          <<")">>,
          <<"exclude", "github.com/x/z", "v0.1.0">>,
          <<"require", "github.com/x/z", "v0.1.0", "//", "indirect">>,
          <<"require", "(">>,
          <<"//", "x">>,
          <<"github.com/x/y", "v1.2.3">>,
          <<>>,
          <<"github.com/x/z", "v0.1.0", "//", "indirect">>,
          <<")">>,
          <<"github.com/x/y", "v1.2.3">> >>)
Pyproject ==
  Text(<< Sec(<<"build-system">>), KV("build-backend", S("hatchling.build")),
          Sec(<<"project">>), KV("requires-python", S(">=3.8")),
          KV("dependencies", Arr(<< Req("flask", <<Clause(">=", "2.0", TRUE)>>) >>)),
          Sec(<<"tool", "poetry", "dependencies">>),
          KV("python", S("^3.9")), KV("requests", S("^1.2")) >>)
RequirementsTxt ==
  Text(<< [kind |-> "comment"], Req("flask", <<Clause("==", "2.0", TRUE)>>),
          [kind |-> "blank"], [kind |-> "include"], [kind |-> "option"],
          Req("requests", <<>>),
          [kind |-> "other"] >>)
Pipfile ==
  Text(<< Sec(<<"packages">>), KV("flask", S("*")), KV("requests", S("1.2")),
          Sec(<<"dev-packages">>), KV("pytest", S("*")) >>)
TSConfigJsonFile ==
  Json([ compilerOptions |-> [ target |-> JStr(Str("ES2022")), strict |-> JBool(TRUE) ] ])
WorkspacesPackageJson ==
  [ name |-> "app", workspaces |-> [isArray |-> TRUE, items |-> << <<"packages", "*">> >>] ]
\* A lerna.json whose patterns name a file, a directory of crates and the root
LernaJsonWithPackages ==
  [ version |-> "1.0.0",
    packages |-> << <<"packages", "c">>, <<"crates", "*">>, <<"*">> >> ]
PnpmWorkspaceYaml ==
  Text(<< [kind |-> "packages"], [kind |-> "item", pattern |-> <<"packages", "*">>],
          [kind |-> "item", pattern |-> <<"crates", "*">>],
          [kind |-> "item", pattern |-> <<"pkg*">>],
          [kind |-> "other"], [kind |-> "item", pattern |-> <<"apps", "*">>] >>)
GoWork ==
  Text(<< <<"go", "1.21">>, <<"//", "x">>, <<"use", "./a">>, <<"use", "(">>,
          <<"./b">>, <<"//", "x">>, <<>>, <<")">>, <<"./b">>, <<"go", "1.21">> >>)
Empty == Text(<<>>)

\* A file of the root in one of its variants; "absent" adds nothing
Variant(name, variant, contents) ==
  IF variant = "absent" THEN <<>> ELSE (<<name>> :> contents[variant])

\* Roots for detectProjectType and the parsers: every combination of the
\* seven markers, the manifests missing, empty, malformed or well-formed.
TypeRoot(pkg, cargo, gomod, pyproject, requirements, pipfile, setup, extras) ==
  MakeFs({},
    Variant("package.json", pkg,
            [invalid |-> InvalidJson, valid |-> Json(PackageJson),
             only |-> Json(ReactOnlyPackageJson)])
    @@ Variant("Cargo.toml", cargo, [empty |-> Empty, valid |-> CargoToml])
    @@ Variant("go.mod", gomod, [empty |-> Empty, valid |-> GoMod, blocks |-> GoModBlocks])
    @@ Variant("pyproject.toml", pyproject, [empty |-> Empty, valid |-> Pyproject])
    @@ Variant("requirements.txt", requirements, [valid |-> RequirementsTxt])
    @@ Variant("Pipfile", pipfile, [valid |-> Pipfile])
    @@ Variant("setup.py", setup, [valid |-> Plain])
    @@ Variant("tsconfig.json", extras, [valid |-> TSConfigJsonFile])
    @@ Variant("yarn.lock", extras, [valid |-> Plain])
    @@ Variant(".python-version", extras, [valid |-> Text(<<"3.11">>)]))

\* Roots for detectMonorepo: every combination of the strategies' markers,
\* above a packages/ and a crates/ directory.
MonoRoot(turbo, nx, lerna, pnpm, pkg, gowork, cargo) ==
  MakeFs({ <<"packages">>, <<"packages", "a">>, <<"packages", "b">>,
           <<"crates">>, <<"crates", "a">> },
    Variant("turbo.json", turbo, [valid |-> Json([pipeline |-> "x"])])
    @@ Variant("nx.json", nx, [valid |-> Json([npmScope |-> "x"])])
    @@ Variant("lerna.json", lerna,
               [invalid |-> InvalidJson, valid |-> Json([version |-> "1.0.0"]),
                listed |-> Json(LernaJsonWithPackages)])
    @@ Variant("pnpm-workspace.yaml", pnpm, [empty |-> Empty, valid |-> PnpmWorkspaceYaml])
    @@ Variant("package.json", pkg,
               [plain |-> Json(PackageJson), valid |-> Json(WorkspacesPackageJson)])
    @@ Variant("go.work", gowork, [empty |-> Empty, valid |-> GoWork])
    @@ Variant("Cargo.toml", cargo, [plain |-> CargoToml, valid |-> CargoWorkspaceToml])
    @@ (<<"packages", "a", "package.json">> :> Json([name |-> "@org/a"]))
    @@ (<<"packages", "b", "package.json">> :> Json(PackageJson))
    @@ (<<"packages", "c">> :> Plain)
    @@ (<<"crates", "a", "Cargo.toml">> :> CargoToml))

Manifests ==
  { <<"package.json">>, <<"Cargo.toml">>, <<"go.mod">>, <<"pyproject.toml">>,
    <<"requirements.txt">>, <<"Pipfile">>, <<"lerna.json">>, <<"go.work">>,
    <<"pnpm-workspace.yaml">> }

Present == {"absent", "valid"}
ProjectTypes == {"node", "python", "go", "rust", "unknown"}

InitDetect ==
  /\ \/ \E pkg \in {"absent", "invalid", "valid", "only"},
          cargo \in {"absent", "empty", "valid"},
          gomod \in {"absent", "empty", "valid", "blocks"},
          pyproject \in {"absent", "empty", "valid"},
          requirements \in Present, pipfile \in Present, setup \in Present,
          extras \in Present :
          fs = TypeRoot(pkg, cargo, gomod, pyproject, requirements, pipfile, setup, extras)
     \/ \E turbo \in Present, nx \in Present,
          lerna \in {"absent", "invalid", "valid", "listed"},
          pnpm \in {"absent", "empty", "valid"}, pkg \in {"absent", "plain", "valid"},
          gowork \in {"absent", "empty", "valid"}, cargo \in {"absent", "plain", "valid"} :
          fs = MonoRoot(turbo, nx, lerna, pnpm, pkg, gowork, cargo)
  /\ faults \in { NoFaults, [NoFaults EXCEPT !.unreadable = Manifests] }
  /\ pc = "idle"
  /\ call = NoCall
  /\ outcome = NoOutcome
  /\ stdin = <<>> /\ cursor = 0 /\ stdout = <<>>
  /\ tasks = <<>>

DetectProjectType ==
  Returns("detectProjectType", DefaultOptions, "none", FALSE, "none",
          Ok(detectProjectType(Root)))

ParseProject ==
  \E type \in ProjectTypes :
    Returns("parseProject", DefaultOptions, "none", FALSE, type,
            Ok(parseProject(Root, type)))

\* detectMonorepo(dir): value is the MonorepoInfo, or <<>> for null
DetectMonorepo ==
  Returns("detectMonorepo", DefaultOptions, "none", FALSE, "none",
          [status |-> "ok", value |-> detectMonorepo(Root)])

NextDetect == DetectProjectType \/ ParseProject \/ DetectMonorepo \/ BuildDeps

SpecDetect == InitDetect /\ [][NextDetect]_vars

-----------------------------------------------------------------------------
(* mcp.ts: the JSON-RPC server on standard input                           *)
(*                                                                         *)
(* A line is [blank, json]: whether line.trim() is empty and, when the     *)
(* text is valid JSON, the value JSON.parse gives: [null |-> TRUE] for    *)
(* the value null, else a request [null |-> FALSE, id,                     *)
(* method, params], each field optional.  params is [name, arguments],     *)
(* arguments is [format, emoji, depth], each optional; dir is "." or       *)
(* absent.  A message is a sequence of strings.                            *)

\* The tools with the properties of their input schemas (mcp.ts lines 5-71)
TOOLS ==
  << [name |-> "dirgo_tree", properties |-> {"dir", "emoji", "format", "depth"}],
     [name |-> "dirgo_context", properties |-> {"dir", "emoji", "format", "depth"}],
     [name |-> "dirgo_deps", properties |-> {"dir"}] >>

createResponse(id, result) ==
  [jsonrpc |-> "2.0", id |-> id, result |-> Some(result), error |-> Undefined]

createError(id, code, message) ==
  [ jsonrpc |-> "2.0", id |-> id, result |-> Undefined,
    error |-> Some([code |-> code, message |-> message]) ]

\* ${value} in a template literal
Shown(value) == IF value = Undefined THEN <<"undefined">> ELSE value

\* value || fallback, for an optional value that is truthy when present
OrDefault(value, fallback) == IF value = Undefined THEN fallback ELSE value[1]

\* params?.arguments || {}
ArgumentsOf(params) ==
  IF params = Undefined \/ params[1].arguments = Undefined
  THEN [format |-> Undefined, emoji |-> Undefined, depth |-> Undefined]
  ELSE params[1].arguments[1]

\* {dir, depth}: the options the tree and context tools pass on
ToolOptions(args) == ScanOptions(<<>>, FALSE, args.depth, <<>>)

\* result.text + "\n\n[<bytes>B . ~<tokens> tokens]" (the dot is U+00B7)
ToolText(result) ==
  result.text \o <<NL, NL, Lit("[", 1), Num(result.bytes), Piece("B . ~", 5, 6),
                   Num(result.tokens), Lit(" tokens]", 8)>>

\* The response to a tool call whose build returned or threw (lines 150-161)
ToolResponse(id, built) ==
  IF built.status = "error" THEN createError(id, -32603, <<"readdir failed">>)
  ELSE createResponse(id, [kind |-> "content", type |-> "text",
                           text |-> ToolText(built.value[1])])

\* A variant that throws on an unknown tool inside the try block
CallToolThrowing(id, toolName, args) ==
  IF toolName = Some("dirgo_tree")
  THEN ToolResponse(id, buildTree(ToolOptions(args), OrDefault(args.format, "tree"),
                                  OrDefault(args.emoji, FALSE)))
  ELSE IF toolName = Some("dirgo_context")
  THEN ToolResponse(id, buildContext(ToolOptions(args), OrDefault(args.format, "tree"),
                                     OrDefault(args.emoji, FALSE)))
  ELSE IF toolName = Some("dirgo_deps") THEN ToolResponse(id, buildDeps(Root))
  ELSE createError(id, -32603, <<"Unknown tool: ">> \o Shown(toolName))

\* The case "tools/call" of handleRequest (mcp.ts lines 112-162)
CallTool(id, toolName, args) ==
  IF toolName = Some("dirgo_tree")
  THEN ToolResponse(id, buildTree(ToolOptions(args), OrDefault(args.format, "tree"),
                                  OrDefault(args.emoji, FALSE)))
  ELSE IF toolName = Some("dirgo_context")
  THEN ToolResponse(id, buildContext(ToolOptions(args), OrDefault(args.format, "tree"),
                                     OrDefault(args.emoji, FALSE)))
  ELSE IF toolName = Some("dirgo_deps") THEN ToolResponse(id, buildDeps(Root))
  ELSE createError(id, -32601, <<"Unknown tool: ">> \o Shown(toolName))

handleRequest(request) ==
  IF request.method = Some("initialize")
  THEN createResponse(request.id, [kind |-> "initialize", protocolVersion |-> "2024-11-05",
                                   name |-> "dirgo", version |-> "2.0.0"])
  ELSE IF request.method = Some("tools/list")
  THEN createResponse(request.id, [kind |-> "tools", tools |-> TOOLS])
  ELSE IF request.method = Some("tools/call")
  THEN CallTool(request.id,
                IF request.params = Undefined THEN Undefined ELSE request.params[1].name,
                ArgumentsOf(request.params))
  ELSE IF request.method = Some("notifications/initialized")
  THEN createResponse(request.id, [kind |-> "empty"])
  ELSE createError(request.id, -32601, <<"Method not found: ">> \o Shown(request.method))

\* The response of the catch block of startServer (mcp.ts lines 186-195)
ParseError == createError(Some(0), -32700, <<"Parse error">>)

\* What startServer writes for a line that is not blank (lines 182-196):
\* JSON.parse throws on invalid JSON, handleRequest on a value it cannot
\* destructure
Answer(line) ==
  IF line.json = Undefined \/ line.json[1].null THEN ParseError
  ELSE handleRequest(line.json[1])

-----------------------------------------------------------------------------
(* The lines and the roots of the MCP server                               *)

Request(id, method, params) ==
  [null |-> FALSE, id |-> id, method |-> method, params |-> params]
JsonLine(value) == [blank |-> FALSE, json |-> Some(value)]
Arguments(format, emoji, depth) ==
  Some([format |-> format, emoji |-> emoji, depth |-> depth])
ToolCall(id, name, arguments) ==
  JsonLine(Request(Some(id), Some("tools/call"),
                   Some([name |-> Some(name), arguments |-> arguments])))

BlankLine == [blank |-> TRUE, json |-> Undefined]
InvalidLine == [blank |-> FALSE, json |-> Undefined]
NullLine == JsonLine([null |-> TRUE])

JsonArguments == Arguments(Some("json"), Undefined, Undefined)
ToonArguments == Arguments(Some("toon"), Some(TRUE), Some(0))

Lines ==
  { BlankLine, InvalidLine, NullLine,
    JsonLine(Request(Some(1), Some("initialize"), Undefined)),
    JsonLine(Request(Some(2), Some("tools/list"), Undefined)),
    JsonLine(Request(Undefined, Some("notifications/initialized"), Undefined)),
    JsonLine(Request(Some(3), Some("ping"), Undefined)),
    ToolCall(4, "dirgo_tree", Undefined),
    ToolCall(4, "dirgo_tree", JsonArguments),
    ToolCall(4, "dirgo_tree", ToonArguments),
    ToolCall(5, "dirgo_context", Undefined),
    ToolCall(5, "dirgo_context", JsonArguments),
    ToolCall(6, "dirgo_deps", Undefined),
    ToolCall(6, "dirgo_deps", JsonArguments),
    ToolCall(6, "dirgo_deps", ToonArguments),
    ToolCall(7, "dirgo_files", Undefined) }

RECURSIVE Inputs(_)
Inputs(n) ==
  IF n = 0 THEN { <<>> }
  ELSE Inputs(n - 1) \cup { Append(input, line) : input \in Inputs(n - 1), line \in Lines }

InitMcp ==
  /\ fs = ScanTree(Prunable, FALSE, TRUE)
  /\ faults \in { NoFaults, [NoFaults EXCEPT !.unlistable = {Root}] }
  /\ pc = "idle"
  /\ call = NoCall
  /\ outcome = NoOutcome
  /\ stdin \in Inputs(MaxLines)
  /\ cursor = 0
  /\ stdout = <<>>
  /\ tasks = <<>>

\* One turn of the loop of startServer (mcp.ts lines 179-197)
ServeLine ==
  /\ cursor < Len(stdin)
  /\ cursor' = cursor + 1
  /\ stdout' = IF stdin[cursor + 1].blank THEN stdout
               ELSE Append(stdout, Answer(stdin[cursor + 1]))
  /\ UNCHANGED <<fs, faults, pc, call, outcome, stdin, tasks>>

NextMcp == ServeLine

SpecMcp == InitMcp /\ [][NextMcp]_vars

-----------------------------------------------------------------------------
(* Scans in flight together                                                *)
(*                                                                         *)
(* An invocation of scan runs until its next await and then yields: the    *)
(* steps of several invocations interleave at the awaits (loadGitignore,   *)
(* readdir, stat).  A task holds what its invocation owns: the rule set ig *)
(* (scanner.ts line 133), the frames of its scanDirectory calls, innermost *)
(* last, and the entries pushed so far, in the order the nested entries    *)
(* arrays are spliced together (lines 43, 101).                            *)

MaxTasks == 2
TaskIds == 1..MaxTasks

NewTask(opts) ==
  [ pc |-> "start", options |-> opts, ig |-> <<>>, stack |-> <<>>, entries |-> <<>>,
    result |-> NoOutcome ]

\* A call of scanDirectory that has not listed its directory yet
Frame(dir, depth) ==
  [dir |-> dir, depth |-> depth, opened |-> FALSE, dirs |-> <<>>, files |-> <<>>]

Top(task) == task.stack[Len(task.stack)]
Popped(task) == SubSeq(task.stack, 1, Len(task.stack) - 1)
Replaced(task, frame) == Append(Popped(task), frame)

\* entries.push(...) of every invocation landing in one array
PushedShared(ts, i, entry) ==
  [ j \in DOMAIN ts |-> [ts[j] EXCEPT !.entries = Append(@, entry)] ]

\* entries.push(...) (scanner.ts lines 84-91, 118-125)
Pushed(ts, i, entry) == [ts EXCEPT ![i].entries = Append(@, entry)]

others == <<fs, faults, pc, call, outcome, stdin, cursor, stdout>>

\* scan up to the await of loadGitignore (scanner.ts lines 131-143)
Begin(i) ==
  /\ tasks[i].pc = "start"
  /\ tasks' = [tasks EXCEPT
       ![i].pc = "gitignore",
       ![i].ig = (IF tasks[i].options.includeAll THEN <<>> ELSE DEFAULT_EXCLUDES)
                   \o tasks[i].options.ignore]
  /\ UNCHANGED others

\* ig.add(gitignorePatterns) and the call of scanDirectory (lines 143-153)
LoadGitignore(i) ==
  /\ tasks[i].pc = "gitignore"
  /\ tasks' = [tasks EXCEPT
       ![i].pc = "walk",
       ![i].ig = @ \o loadGitignore(Root),
       ![i].stack = <<Frame(Root, 0)>>]
  /\ UNCHANGED others

\* The head of scanDirectory: the depth test, readdir, the two sorted lists
\* (scanner.ts lines 43-68)
Open(i) ==
  /\ tasks[i].pc = "walk" /\ tasks[i].stack # <<>>
  /\ ~Top(tasks[i]).opened
  /\ tasks' =
       IF DepthExceeded(Top(tasks[i]).depth, tasks[i].options.depth)
       THEN [tasks EXCEPT ![i].stack = Popped(tasks[i])]
       ELSE IF ReaddirThrows(Top(tasks[i]).dir)
       THEN [tasks EXCEPT ![i].pc = "rejected", ![i].stack = <<>>, ![i].result = Error]
       ELSE [tasks EXCEPT ![i].stack = Replaced(tasks[i],
               [ Top(tasks[i]) EXCEPT
                   !.opened = TRUE,
                   !.dirs = Listed(Top(tasks[i]).dir, tasks[i].ig, TRUE),
                   !.files = Listed(Top(tasks[i]).dir, tasks[i].ig, FALSE) ])]
  /\ UNCHANGED others

\* One turn of the loop over the directories (scanner.ts lines 70-102)
VisitDir(i) ==
  /\ tasks[i].pc = "walk" /\ tasks[i].stack # <<>>
  /\ Top(tasks[i]).opened /\ Top(tasks[i]).dirs # <<>>
  /\ tasks' =
       IF DirFocusSkips(RelativePath(Append(Top(tasks[i]).dir, Head(Top(tasks[i]).dirs))),
                        tasks[i].options.focus)
       THEN [tasks EXCEPT ![i].stack =
               Replaced(tasks[i], [Top(tasks[i]) EXCEPT !.dirs = Tail(@)])]
       ELSE [ Pushed(tasks, i, FileEntry(Append(Top(tasks[i]).dir, Head(Top(tasks[i]).dirs)),
                                         TRUE, Top(tasks[i]).depth))
              EXCEPT ![i].stack =
                Append(Replaced(tasks[i], [Top(tasks[i]) EXCEPT !.dirs = Tail(@)]),
                       Frame(Append(Top(tasks[i]).dir, Head(Top(tasks[i]).dirs)),
                             Top(tasks[i]).depth + 1)) ]
  /\ UNCHANGED others

\* One turn of the loop over the files (scanner.ts lines 104-126)
VisitFile(i) ==
  /\ tasks[i].pc = "walk" /\ tasks[i].stack # <<>>
  /\ Top(tasks[i]).opened /\ Top(tasks[i]).dirs = <<>> /\ Top(tasks[i]).files # <<>>
  /\ tasks' =
       IF FileFocusSkips(RelativePath(Append(Top(tasks[i]).dir, Head(Top(tasks[i]).files))),
                         tasks[i].options.focus)
       THEN [tasks EXCEPT ![i].stack =
               Replaced(tasks[i], [Top(tasks[i]) EXCEPT !.files = Tail(@)])]
       ELSE [ Pushed(tasks, i, FileEntry(Append(Top(tasks[i]).dir, Head(Top(tasks[i]).files)),
                                         FALSE, Top(tasks[i]).depth))
              EXCEPT ![i].stack =
                Replaced(tasks[i], [Top(tasks[i]) EXCEPT !.files = Tail(@)]) ]
  /\ UNCHANGED others

\* return entries (scanner.ts line 128)
Leave(i) ==
  /\ tasks[i].pc = "walk" /\ tasks[i].stack # <<>>
  /\ Top(tasks[i]).opened /\ Top(tasks[i]).dirs = <<>> /\ Top(tasks[i]).files = <<>>
  /\ tasks' = [tasks EXCEPT ![i].stack = Popped(tasks[i])]
  /\ UNCHANGED others

\* The detection calls and the result (scanner.ts lines 155-165)
Resolve(i) ==
  /\ tasks[i].pc = "walk" /\ tasks[i].stack = <<>>
  /\ tasks' = [tasks EXCEPT
       ![i].pc = "done",
       ![i].result = Ok([ root |-> Root,
                          entries |-> tasks[i].entries,
                          projectInfo |-> parseProject(Root, detectProjectType(Root)),
                          monorepo |-> detectMonorepo(Root) ])]
  /\ UNCHANGED others

ConcurrentOptions ==
  { DefaultOptions,
    ScanOptions(<<"c">>, TRUE, Some(1), <<>>),
    ScanOptions(<<>>, FALSE, Undefined, <<"a", "/", "b">>) }

InitConcurrent ==
  /\ fs = ScanTree({}, TRUE, TRUE)
  /\ faults \in { [NoFaults EXCEPT !.unstatable = {<<"a", "c">>}],
                  [NoFaults EXCEPT !.unlistable = {<<"a">>}] }
  /\ pc = "idle"
  /\ call = NoCall
  /\ outcome = NoOutcome
  /\ stdin = <<>>
  /\ cursor = 0
  /\ stdout = <<>>
  /\ tasks \in [TaskIds -> { NewTask(opts) : opts \in ConcurrentOptions }]

NextConcurrent ==
  \E i \in TaskIds :
    \/ Begin(i)
    \/ LoadGitignore(i)
    \/ Open(i)
    \/ VisitDir(i)
    \/ VisitFile(i)
    \/ Leave(i)
    \/ Resolve(i)

SpecConcurrent == InitConcurrent /\ [][NextConcurrent]_vars

-----------------------------------------------------------------------------
(* The walk over a tree with symbolic links to ancestor directories        *)

\* a/a/a points to a, c points to the scan root
LinkedTree ==
  (<<"a", "a", "a">> :> Link(<<"a">>)) @@ (<<"c">> :> Link(Root))
    @@ MakeFs({<<"a">>, <<"a", "a">>},
              (<<"a", "a", "b">> :> Plain) @@ (<<"b">> :> Plain))

WalkOptions ==
  { DefaultOptions,
    ScanOptions(<<>>, TRUE, Some(MaxDepth), <<"a", "/", "a">>) }

InitWalk ==
  /\ fs = LinkedTree
  /\ faults \in { NoFaults, [NoFaults EXCEPT !.unstatable = {<<"c">>}] }
  /\ pc = "idle"
  /\ call = NoCall
  /\ outcome = NoOutcome
  /\ stdin = <<>>
  /\ cursor = 0
  /\ stdout = <<>>
  /\ \E opts \in WalkOptions : tasks = [ i \in TaskIds |-> NewTask(opts) ]

\* The steps of one invocation
TaskStep(i) ==
  Begin(i) \/ LoadGitignore(i) \/ Open(i) \/ VisitDir(i) \/ VisitFile(i) \/ Leave(i)
    \/ Resolve(i)

\* Every continuation the event loop holds is run in the end
SpecWalk ==
  InitWalk /\ [][NextConcurrent]_vars /\ \A i \in TaskIds : WF_vars(TaskStep(i))

-----------------------------------------------------------------------------
(* The texts whose tokens are estimated                                    *)

MaxPieces == 3

\* Runs of one to four code units, two of them emoji: one outside the basic
\* plane (two code units, four bytes), one followed by a variation selector
Alphabet ==
  { Lit("a", 1), Lit("ab", 2), Lit("abcd", 4), Piece("folder", 2, 4), Piece("eye", 3, 7) }

RECURSIVE Texts(_)
Texts(n) ==
  IF n = 0 THEN { <<>> }
  ELSE Texts(n - 1) \cup { Append(text, piece) : text \in Texts(n - 1), piece \in Alphabet }

InitTokens ==
  /\ fs = ScanTree({}, FALSE, FALSE)
  /\ faults = NoFaults
  /\ pc = "idle"
  /\ call = NoCall
  /\ outcome = NoOutcome
  /\ stdin = <<>>
  /\ cursor = 0
  /\ stdout = <<>>
  /\ tasks = <<>>

\* A call of estimateTokens; calls follow one another
EstimateTokens ==
  \E text \in Texts(MaxPieces) :
    /\ pc' = "done"
    /\ call' = [op |-> "estimateTokens", options |-> text, format |-> "none",
                useEmoji |-> FALSE, type |-> "none"]
    /\ outcome' = Ok(estimateTokens(text))
    /\ UNCHANGED <<fs, faults, stdin, cursor, stdout, tasks>>

NextTokens == EstimateTokens

SpecTokens == InitTokens /\ [][NextTokens]_vars

-----------------------------------------------------------------------------
(* Properties of the scanner                                               *)

ScanReturned == call.op = "scan" /\ outcome.status = "ok"
Entries == outcome.value[1].entries
EntryPaths == { Entries[i].path : i \in 1..Len(Entries) }
Prefixes(path) == { SubSeq(path, 1, n) : n \in 1..Len(path) }

\* The rules in force for a scan: the default excludes unless disabled, the
\* patterns of the root .gitignore, the caller's patterns.
RuleSet(opts) ==
  (IF opts.includeAll THEN {} ELSE { DEFAULT_EXCLUDES[i] : i \in 1..Len(DEFAULT_EXCLUDES) })
    \cup { opts.ignore[i] : i \in 1..Len(opts.ignore) }
    \cup (IF <<".gitignore">> \in DOMAIN fs /\ <<".gitignore">> \notin faults.unreadable
          THEN LET lines == fs[<<".gitignore">>].content.lines
               IN { l \in { lines[i] : i \in 1..Len(lines) } :
                      l # "" /\ Spelling[l][1] # "#" }
          ELSE {})

\* A rule matches the last segment of the path
MatchesRule(opts, path) == \E r \in RuleSet(opts) : RuleMatches(r, path[Len(path)])

\* The focus rule removes the entry itself
FocusRemoves(opts, path) ==
  IF isDirectory(path) THEN DirFocusSkips(RelativePath(path), opts.focus)
  ELSE FileFocusSkips(RelativePath(path), opts.focus)

\* The entry or one of its ancestors is removed by an ignore or focus rule
Removed(opts, path) ==
  \E q \in Prefixes(path) : MatchesRule(opts, q) \/ FocusRemoves(opts, q)

\* C1: with a maximum depth D, a scan emits exactly the entries at depth <= D
\* that no ignore or focus rule removes: a directory at depth D is listed,
\* its children are not.
C1_DepthBound ==
  (ScanReturned /\ call.options.depth # Undefined) =>
    /\ EntryPaths = { p \in DOMAIN fs \ {Root} :
                        /\ Len(p) - 1 <= call.options.depth[1]
                        /\ ~Removed(call.options, p) }
    /\ \A i \in 1..Len(Entries) :
         Entries[i].depth = Len(Entries[i].path) - 1
           /\ Entries[i].depth <= call.options.depth[1]

\* Depth limit 1 on a tree three levels deep: a depth-1 directory is listed
\* and its child, which no rule removes, is not.
C1_Witness ==
  /\ ScanReturned
  /\ call.options.depth = Some(1)
  /\ <<"a", "a">> \in EntryPaths
  /\ <<"a", "a", "b">> \in DOMAIN fs
  /\ ~Removed(call.options, <<"a", "a", "b">>)
  /\ <<"a", "a", "b">> \notin EntryPaths

\* The segments of a "/"-separated string, each a sequence of characters
RECURSIVE Segments(_, _)
Segments(chars, current) ==
  IF chars = <<>> THEN <<current>>
  ELSE IF Head(chars) = "/" THEN <<current>> \o Segments(Tail(chars), <<>>)
  ELSE Segments(Tail(chars), Append(current, Head(chars)))

SegmentPrefix(a, b) == Len(a) <= Len(b) /\ SubSeq(b, 1, Len(a)) = a

\* C2: with a focus path F every emitted entry is F, lies inside the subtree
\* of F, or is a directory on the ancestor chain of F.
C2_FocusSubtree ==
  (ScanReturned /\ call.options.focus # <<>>) =>
    \A i \in 1..Len(Entries) :
      LET F == Segments(call.options.focus, <<>>)
          P == Segments(Entries[i].relativePath, <<>>)
      IN \/ SegmentPrefix(F, P)
         \/ Entries[i].isDirectory /\ SegmentPrefix(P, F)

SameParent(e1, e2) ==
  SubSeq(e1.path, 1, Len(e1.path) - 1) = SubSeq(e2.path, 1, Len(e2.path) - 1)

C4_NeverEmitsIgnored ==
  ScanReturned =>
    \A i \in 1..Len(Entries) :
      \A q \in Prefixes(Entries[i].path) : ~MatchesRule(call.options, q)

\* A scan that returns entries from a tree where a directory matching a
\* .gitignore pattern has a child, a file matches the caller's pattern and a
\* directory matches a default exclude.
C4_Witness ==
  /\ ScanReturned
  /\ Len(Entries) > 0
  /\ ~call.options.includeAll
  /\ call.options.ignore = <<"c">>
  /\ { <<".gitignore">>, <<"a", "b", "c">>, <<"a", "c">>, <<"dist", "b">> } \subseteq DOMAIN fs
  /\ <<"a">> \in EntryPaths

\* C5: with include-all set and no other option, every file and directory
\* below the root is emitted.
C5_IncludeAllEmitsEverything ==
  (ScanReturned /\ call.options = ScanOptions(<<>>, TRUE, Undefined, <<>>)) =>
    EntryPaths = DOMAIN fs \ {Root}

\* C6: a failure on an entry other than the root does not abort the scan,
\* and the failing entry is still listed.
C6_EntryFailureNeverAborts ==
  (call.op = "scan" /\ Root \notin faults.unlistable) =>
    /\ outcome.status = "ok"
    /\ \A p \in DOMAIN fs \ {Root} :
         (/\ ~Removed(call.options, p)
          /\ call.options.depth # Undefined => Len(p) - 1 <= call.options.depth[1])
           => p \in EntryPaths

\* C7: when the root cannot be listed, scan, buildTree, buildContext and
\* buildDeps fail and return nothing.
C7_RootFailureIsFatal ==
  (call.op \in {"scan", "buildTree", "buildContext", "buildDeps"}
     /\ ReaddirThrows(Root)) =>
    outcome.status = "error" /\ outcome.value = Undefined

\* The root cannot be listed, its package.json can be read, the build failed.
C7_Witness ==
  /\ call.op = "buildContext"
  /\ ReaddirThrows(Root)
  /\ readJson(<<"package.json">>) # Undefined
  /\ outcome.status = "error"

-----------------------------------------------------------------------------
(* Properties of detection and parsing                                     *)

Markers ==
  <<"package.json", "Cargo.toml", "go.mod", "pyproject.toml", "requirements.txt",
    "Pipfile", "setup.py">>
MarkerTypes == <<"node", "rust", "go", "python", "python", "python", "python">>
PresentMarkers == { i \in 1..Len(Markers) : <<Markers[i]>> \in DOMAIN fs }
Least(set) == CHOOSE i \in set : \A j \in set : i <= j

\* C8: detectProjectType returns the type of the first marker file present,
\* in the order package.json, Cargo.toml, go.mod, pyproject.toml,
\* requirements.txt, Pipfile, setup.py, and unknown iff none is present.
C8_FirstMarkerWins ==
  call.op = "detectProjectType" =>
    /\ outcome.status = "ok"
    /\ outcome.value[1] \in {"node", "rust", "go", "python", "unknown"}
    /\ outcome.value[1] = "unknown" <=> PresentMarkers = {}
    /\ PresentMarkers # {} => outcome.value[1] = MarkerTypes[Least(PresentMarkers)]

\* No package.json, Cargo.toml together with go.mod and Pipfile: rust.
C8_Witness ==
  /\ call.op = "detectProjectType"
  /\ PresentMarkers = {2, 3, 6}
  /\ outcome.value = Some("rust")

\* The manifest of an ecosystem is missing, unreadable or malformed
ManifestUnusable(type) ==
  CASE type = "node" -> readJson(<<"package.json">>) = Undefined
    [] type = "go" -> Falsy(readText(<<"go.mod">>))
    [] type = "rust" -> readToml(<<"Cargo.toml">>) = Undefined
    [] type = "python" ->
         \A m \in {"pyproject.toml", "Pipfile", "requirements.txt"} :
           readText(<<m>>) = Undefined

\* C9: a parser whose manifest is missing, unreadable or malformed returns
\* an empty dependency list and no ecosystem sub-record.
C9_UnusableManifestIsAbsent ==
  (/\ call.op = "parseProject"
   /\ call.type \in {"node", "python", "go", "rust"}
   /\ ManifestUnusable(call.type)) =>
    /\ outcome.status = "ok"
    /\ outcome.value[1].dependencies = <<>>
    /\ outcome.value[1].node = Undefined
    /\ outcome.value[1].python = Undefined
    /\ outcome.value[1].go = Undefined
    /\ outcome.value[1].rust = Undefined

StrategyTypes ==
  <<"turbo", "nx", "lerna", "pnpm", "npm-workspaces", "go-workspace", "cargo-workspace">>
Succeeding == { i \in 1..Len(StrategyTypes) : Strategy(Root, i) # Undefined }

\* C10: detectMonorepo returns the result of the first strategy that
\* succeeds in the order Turborepo, Nx, Lerna, pnpm, npm/yarn, Go, Cargo,
\* and null, without an error, when none succeeds.
C10_FirstStrategyWins ==
  call.op = "detectMonorepo" =>
    /\ outcome.status = "ok"
    /\ Succeeding = {} <=> outcome.value = Undefined
    /\ Succeeding # {} =>
         /\ outcome.value = Strategy(Root, Least(Succeeding))
         /\ outcome.value[1].type = StrategyTypes[Least(Succeeding)]

\* Lerna, the pnpm workspace, the npm workspaces and the Go workspace all
\* succeed, Turborepo and Nx do not: lerna is reported.
C10_Witness ==
  /\ call.op = "detectMonorepo"
  /\ Succeeding = {3, 4, 5, 6}
  /\ outcome.value[1].type = "lerna"

-----------------------------------------------------------------------------
(* Properties of the formatters and of the builds                          *)

BuildOps == {"buildTree", "buildContext", "buildDeps"}
Built_ok == call.op \in BuildOps /\ outcome.status = "ok"
ResultText == outcome.value[1].text

\* The piece that follows "key": at the indentation of the meta block
MetaPiece(text, key, n) ==
  LET at == CHOOSE i \in 1..(Len(text) - 5) :
              /\ text[i] = Spaces(4)
              /\ text[i + 2] = Lit(key, n)
              /\ text[i + 4] = Lit(": ", 2)
  IN text[at + 5]

\* C11: in the record formatJson returns, meta.bytes is the UTF-8 length of
\* the returned text and meta.tokens its token estimate: the values of the
\* bytes and tokens fields returned with the text.
C11_MetaReflectsPayload ==
  (Built_ok /\ call.format = "json") =>
    /\ MetaPiece(ResultText, "bytes", 5) = Num(outcome.value[1].bytes)
    /\ MetaPiece(ResultText, "tokens", 6) = Num(outcome.value[1].tokens)

\* C12: the result {text, bytes, tokens} of buildTree, buildContext and
\* buildDeps has bytes = the UTF-8 byte length of text and tokens = the
\* length of text in UTF-16 units divided by four, rounded up.
C12_SizesOfText ==
  Built_ok =>
    /\ outcome.value[1].bytes = byteLength(ResultText)
    /\ 4 * outcome.value[1].tokens >= Length(ResultText)
    /\ 4 * (outcome.value[1].tokens - 1) < Length(ResultText)

\* A tree with emoji: the text holds characters of more than one byte.
C12_Witness ==
  /\ Built_ok
  /\ call.op = "buildContext"
  /\ call.format = "tree"
  /\ call.useEmoji
  /\ outcome.value[1].bytes > Length(ResultText)
  /\ outcome.value[1].tokens > 1

-----------------------------------------------------------------------------
(* Properties of the MCP server                                            *)

Consumed == 1..cursor
\* The response to the k-th line, which is not blank
ResponseTo(k) == stdout[Cardinality({ j \in 1..k : ~stdin[j].blank })]
IsToolCall(line, name) ==
  /\ line.json # Undefined
  /\ ~line.json[1].null
  /\ line.json[1].method = Some("tools/call")
  /\ line.json[1].params # Undefined
  /\ line.json[1].params[1].name = Some(name)
FormatAsked(line) == ArgumentsOf(line.json[1].params).format

\* C13: the dependencies tool takes the parameters of the tree and context
\* tools and honours the format: a dirgo_deps call with format json is
\* answered with a JSON record, as a dirgo_tree call is.
C13_DepsHonoursFormat ==
  \A k \in Consumed :
    (/\ \/ IsToolCall(stdin[k], "dirgo_deps")
        \/ IsToolCall(stdin[k], "dirgo_tree")
     /\ FormatAsked(stdin[k]) = Some("json")
     /\ ResponseTo(k).result # Undefined) =>
      ResponseTo(k).result[1].text[1] = Lit("{", 1)

Methods == {"initialize", "tools/list", "tools/call", "notifications/initialized"}
ToolNames == { TOOLS[i].name : i \in 1..Len(TOOLS) }
IsRequest(line) == line.json # Undefined /\ ~line.json[1].null
UnknownMethod(line) ==
  IsRequest(line) /\ \A method \in Methods : line.json[1].method # Some(method)
UnknownTool(line) ==
  /\ IsRequest(line)
  /\ line.json[1].method = Some("tools/call")
  /\ \A name \in ToolNames : ~IsToolCall(line, name)
FailingToolCall(line) ==
  /\ \E name \in ToolNames : IsToolCall(line, name)
  /\ Root \in faults.unlistable
ErrorCode(response) ==
  IF response.error = Undefined THEN 0 ELSE response.error[1].code

\* C14: every line that is not blank is answered, in order, whatever the
\* lines before it: an unknown method or tool with error -32601, a line that
\* is not JSON with -32700, a tool call whose scan fails with -32603; an
\* error response never ends the answers.
C14_ErrorsAreAnswered ==
  /\ Len(stdout) = Cardinality({ j \in Consumed : ~stdin[j].blank })
  /\ \A k \in Consumed :
       ~stdin[k].blank =>
         /\ ResponseTo(k).jsonrpc = "2.0"
         /\ (UnknownMethod(stdin[k]) \/ UnknownTool(stdin[k])) =>
              ErrorCode(ResponseTo(k)) = -32601
         /\ stdin[k].json = Undefined => ErrorCode(ResponseTo(k)) = -32700
         /\ FailingToolCall(stdin[k]) => ErrorCode(ResponseTo(k)) = -32603
         /\ IsRequest(stdin[k]) => ResponseTo(k).id = stdin[k].json[1].id

\* A line that is not JSON, then a call of an unknown tool: both answered
C14_Witness ==
  /\ cursor = 2
  /\ stdin[1].json = Undefined /\ ~stdin[1].blank
  /\ UnknownTool(stdin[2])
  /\ Len(stdout) = 2
  /\ ErrorCode(stdout[1]) = -32700
  /\ ErrorCode(stdout[2]) = -32601

-----------------------------------------------------------------------------
(* Properties of scans in flight together                                  *)

Settled(i) == tasks[i].pc \in {"done", "rejected"}

\* C15: however the steps of the invocations interleave, each invocation
\* settles with what a scan of its options running alone returns, so two
\* invocations with the same options return the same ordered entries.
C15_ScansAreIndependent ==
  /\ \A i \in DOMAIN tasks :
       Settled(i) => tasks[i].result = Scanned(scan(tasks[i].options))
  /\ \A i, j \in DOMAIN tasks :
       (Settled(i) /\ Settled(j) /\ tasks[i].options = tasks[j].options) =>
         tasks[i].result = tasks[j].result

\* Two scans with the same options, begun together, both resolved with
\* entries
C15_Witness ==
  /\ DOMAIN tasks = TaskIds
  /\ tasks[1].options = tasks[2].options
  /\ tasks[1].pc = "done" /\ tasks[2].pc = "done"
  /\ Len(tasks[1].result.value[1].entries) > 2
  /\ tasks[2].result.value[1].entries = tasks[1].result.value[1].entries

-----------------------------------------------------------------------------
(* Properties of the token estimate                                        *)

Estimated == call.op = "estimateTokens"

\* C16: the estimate of a text is its length (String.length) divided by
\* four and rounded up, 0 for the empty text; of two calls, the one with the
\* text that is not longer returns the estimate that is not larger, and the
\* same text gets the same estimate.
C16_CeilingOfQuarter ==
  /\ [](Estimated =>
          /\ 4 * outcome.value[1] >= Length(call.options)
          /\ 4 * (outcome.value[1] - 1) < Length(call.options)
          /\ call.options = <<>> => outcome.value[1] = 0)
  /\ [][(Estimated /\ Length(call.options) <= Length(call'.options)) =>
          outcome.value[1] <= outcome'.value[1]]_vars

\* A text of five code units holding an emoji: the estimate is rounded up
C16_Witness ==
  /\ Estimated
  /\ \E i \in 1..Len(call.options) : call.options[i].bytes > call.options[i].units
  /\ Length(call.options) = 5
  /\ outcome.value[1] = 2

-----------------------------------------------------------------------------
(* Properties of the entries' depths                                       *)

Separators(relativePath) ==
  Cardinality({ k \in 1..Len(relativePath) : relativePath[k] = "/" })

\* C17: the depth of every entry of a scan is the number of separators in
\* its relative path; an entry directly under the root has depth 0, any other
\* entry comes after the entry of its parent directory and is one deeper.
C17_DepthCountsSeparators ==
  ScanReturned =>
    \A i \in 1..Len(Entries) :
      /\ Entries[i].depth = Separators(Entries[i].relativePath)
      /\ Len(Entries[i].path) = 1 => Entries[i].depth = 0
      /\ Len(Entries[i].path) > 1 =>
           \E j \in 1..(i - 1) :
             /\ Entries[j].path = SubSeq(Entries[i].path, 1, Len(Entries[i].path) - 1)
             /\ Entries[j].isDirectory
             /\ Entries[i].depth = Entries[j].depth + 1

\* A scan under a focus path that emits a file two directories down
C17_Witness ==
  /\ ScanReturned
  /\ call.options.focus # <<>>
  /\ \E i \in 1..Len(Entries) : ~Entries[i].isDirectory /\ Entries[i].depth = 2

-----------------------------------------------------------------------------
(* Properties of the manifest parsers                                      *)

Parsed(type) == call.op = "parseProject" /\ call.type = type /\ outcome.status = "ok"
Dependencies == outcome.value[1].dependencies

\* The entries of a table of the root's package.json, none when the file or
\* the table is missing or the file is not JSON
ManifestTable(key) ==
  IF /\ <<"package.json">> \in DOMAIN fs
     /\ <<"package.json">> \notin faults.unreadable
     /\ fs[<<"package.json">>].content.json # Undefined
     /\ key \in DOMAIN fs[<<"package.json">>].content.json[1]
  THEN fs[<<"package.json">>].content.json[1][key]
  ELSE <<>>

\* C18: the Node parser returns type node and one record for each entry of
\* dependencies (isDev false), then one for each entry of devDependencies
\* (isDev true), with the entry's name and version and isIndirect false,
\* whether or not a name is in both tables; the manifest
\* {"dependencies": {"react": "^18.0.0"}} alone in its directory is
\* detected as node and gives the one record of react.
C18_OneRecordPerEntry ==
  /\ Parsed("node") =>
       /\ outcome.value[1].type = "node"
       /\ Len(Dependencies) =
            Len(ManifestTable("dependencies")) + Len(ManifestTable("devDependencies"))
       /\ \A i \in 1..Len(ManifestTable("dependencies")) :
            Dependencies[i] =
              [ name |-> ManifestTable("dependencies")[i][1],
                version |-> ManifestTable("dependencies")[i][2],
                isDev |-> FALSE, isIndirect |-> FALSE ]
       /\ \A i \in 1..Len(ManifestTable("devDependencies")) :
            Dependencies[Len(ManifestTable("dependencies")) + i] =
              [ name |-> ManifestTable("devDependencies")[i][1],
                version |-> ManifestTable("devDependencies")[i][2],
                isDev |-> TRUE, isIndirect |-> FALSE ]
  /\ (/\ DOMAIN fs = {Root, <<"package.json">>}
      /\ faults = NoFaults
      /\ fs[<<"package.json">>].content = Json(ReactOnlyPackageJson)) =>
       /\ call.op = "detectProjectType" => outcome.value[1] = "node"
       /\ Parsed("node") =>
            Dependencies = << [ name |-> "react", version |-> "^18.0.0",
                                isDev |-> FALSE, isIndirect |-> FALSE ] >>

\* react in both tables: two records that differ in isDev
C18_Witness ==
  /\ Parsed("node")
  /\ Len(Dependencies) = 3
  /\ Dependencies[1].name = "react" /\ ~Dependencies[1].isDev
  /\ Dependencies[3].name = "react" /\ Dependencies[3].isDev

\* The lines of the root's go.mod, none when it cannot be read
GoModLines ==
  IF <<"go.mod">> \in DOMAIN fs /\ <<"go.mod">> \notin faults.unreadable
  THEN fs[<<"go.mod">>].content.lines ELSE <<>>

\* Line k lies after the opening of a require block that no line has closed
InsideRequire(lines, k) ==
  \E open \in 1..(k - 1) :
    /\ lines[open] = <<"require", "(">>
    /\ \A close \in (open + 1)..(k - 1) : lines[close] # <<")">>

HasMarker(line) ==
  Len(line) >= 2 /\ line[Len(line) - 1] = "//" /\ line[Len(line)] = "indirect"
WithoutMarker(line) ==
  IF HasMarker(line) THEN SubSeq(line, 1, Len(line) - 2) ELSE line
IsComment(line) == line # <<>> /\ line[1] \in {"//", "//x"}

\* What line k of a go.mod contributes
Requirement(lines, k) ==
  IF Len(lines[k]) >= 3 /\ lines[k][1] = "require" /\ lines[k][2] # "("
  THEN << [ name |-> lines[k][2], version |-> lines[k][3],
            isDev |-> FALSE, isIndirect |-> FALSE ] >>
  ELSE IF /\ InsideRequire(lines, k)
          /\ Len(WithoutMarker(lines[k])) >= 2
          /\ ~IsComment(lines[k])
  THEN << [ name |-> lines[k][1], version |-> lines[k][2],
            isDev |-> FALSE, isIndirect |-> HasMarker(lines[k]) ] >>
  ELSE <<>>

RECURSIVE Requirements(_, _)
Requirements(lines, k) ==
  IF k = 0 THEN <<>> ELSE Requirements(lines, k - 1) \o Requirement(lines, k)

\* C19: the go.mod parser returns, in file order, one record for each
\* single-line require of a name and a version (isIndirect false) and one for
\* each line of a require block (isIndirect exactly when the line ends with
\* the indirect marker); comments, the lines of replace and exclude
\* directives and every other line outside a require block give none.
C19_RequirementsInFileOrder ==
  Parsed("go") => Dependencies = Requirements(GoModLines, Len(GoModLines))

\* The go.mod with a replace block and comments: three records, only the
\* one from inside the require block indirect
C19_Witness ==
  /\ Parsed("go")
  /\ \E k \in 1..Len(GoModLines) : GoModLines[k] = <<"replace", "(">>
  /\ Len(Dependencies) = 3
  /\ ~Dependencies[1].isIndirect /\ ~Dependencies[2].isIndirect
  /\ Dependencies[3].isIndirect

-----------------------------------------------------------------------------
(* Properties of the workspace patterns                                    *)

GlobTypes == {"lerna", "pnpm", "npm-workspaces"}
Detected == call.op = "detectMonorepo" /\ outcome.value # Undefined
Packages == outcome.value[1].packages

RootJson(name) ==
  IF <<name>> \in DOMAIN fs /\ <<name>> \notin faults.unreadable
  THEN fs[<<name>>].content.json ELSE Undefined

\* The patterns the strategy of a type resolves
PatternsOf(type) ==
  IF type = "lerna"
  THEN IF "packages" \in DOMAIN RootJson("lerna.json")[1]
       THEN RootJson("lerna.json")[1].packages ELSE << <<"packages", "*">> >>
  ELSE IF type = "pnpm"
  THEN PnpmPatterns(fs[<<"pnpm-workspace.yaml">>].content.lines, FALSE)
  ELSE RootJson("package.json")[1].workspaces.items

\* The pattern without its trailing "/*" or "*"
BaseOf(pattern) ==
  IF pattern[Len(pattern)] = "*" THEN SubSeq(pattern, 1, Len(pattern) - 1)
  ELSE [pattern EXCEPT ![Len(pattern)] = StripStar(@)]

\* The immediate subdirectories of a base; none when the base is missing or
\* is a file
Subdirectories(base) ==
  IF base \in DOMAIN fs /\ fs[base].kind = "dir"
  THEN { p \in DOMAIN fs : Len(p) = Len(base) + 1 /\ IsUnder(p, base) /\ fs[p].kind = "dir" }
  ELSE {}

\* The package of a subdirectory of a base
PackageOf(base, path) ==
  [ name |-> IF /\ Append(path, "package.json") \in DOMAIN fs
                /\ fs[Append(path, "package.json")].content.json # Undefined
                /\ "name" \in DOMAIN fs[Append(path, "package.json")].content.json[1]
             THEN Spelling[fs[Append(path, "package.json")].content.json[1].name]
             ELSE Spelling[path[Len(path)]],
    path |-> RelativePath(path),
    type |-> Undefined ]

RECURSIVE SubdirectoryCount(_)
SubdirectoryCount(patterns) ==
  IF patterns = <<>> THEN 0
  ELSE Cardinality(Subdirectories(BaseOf(Head(patterns))))
         + SubdirectoryCount(Tail(patterns))

\* C20: the packages of the Lerna, pnpm and npm strategies are, for each
\* pattern, one package for each immediate subdirectory of the pattern's base
\* directory and no other, named by the name of the subdirectory's
\* package.json or else by the subdirectory; a root package.json with
\* workspaces ["packages/*"] over two subdirectories with manifests is an
\* npm-workspaces monorepo of two packages named by the manifests.
C20_OnePackagePerSubdirectory ==
  /\ (Detected /\ outcome.value[1].type \in GlobTypes) =>
       /\ Len(Packages) = SubdirectoryCount(PatternsOf(outcome.value[1].type))
       /\ { Packages[k] : k \in 1..Len(Packages) } =
            UNION { { PackageOf(BaseOf(pattern), path) : path \in Subdirectories(BaseOf(pattern)) } :
                    pattern \in { PatternsOf(outcome.value[1].type)[i] :
                                    i \in 1..Len(PatternsOf(outcome.value[1].type)) } }
  /\ (/\ call.op = "detectMonorepo"
      /\ faults = NoFaults
      /\ RootJson("package.json") = Some(WorkspacesPackageJson)
      /\ \A marker \in {"turbo.json", "nx.json", "lerna.json", "pnpm-workspace.yaml"} :
           <<marker>> \notin DOMAIN fs) =>
       /\ Detected
       /\ outcome.value[1].type = "npm-workspaces"
       /\ Len(Packages) = 2
       /\ { Packages[k].name : k \in 1..Len(Packages) } = { Spelling["@org/a"], Spelling["app"] }

\* The pnpm strategy over three patterns: two manifest names from packages/,
\* a directory name from crates/, nothing for the missing base
C20_Witness ==
  /\ Detected
  /\ outcome.value[1].type = "pnpm"
  /\ Len(PatternsOf("pnpm")) = 3
  /\ Len(Packages) = 3
  /\ Packages[1].name = Spelling["@org/a"]
  /\ Packages[3].name = Spelling["a"]

-----------------------------------------------------------------------------
(* Properties of the JSON record                                           *)

\* The elements of a finite set of positions, ascending
RECURSIVE SortPositions(_)
SortPositions(set) ==
  IF set = {} THEN <<>>
  ELSE LET least == CHOOSE x \in set : \A y \in set : x <= y
       IN <<least>> \o SortPositions(set \ {least})

\* The ScanResult the build formatted
Formatted == scan(call.options).value[1]

\* Where the top-level array of a key begins and ends in the text
ArrayOpens(text, key, n) ==
  CHOOSE i \in 1..(Len(text) - 5) :
    /\ text[i] = Spaces(2) /\ text[i + 2] = Lit(key, n) /\ text[i + 4] = Lit(": ", 2)
ArrayCloses(text, from) ==
  IF text[from + 5] = Lit("[]", 2) THEN from + 5
  ELSE CHOOSE j \in (from + 5)..(Len(text) - 1) :
         /\ text[j] = Spaces(2) /\ text[j + 1] = Lit("]", 1)
         /\ \A k \in (from + 5)..(j - 1) : ~(text[k] = Spaces(2) /\ text[k + 1] = Lit("]", 1))

\* JSON.parse(text)[key], for a top-level array of objects: the positions at
\* which its elements open, in order
ElementsAt(text, from, to) ==
  SortPositions({ k \in from..to : text[k] = Spaces(4) /\ text[k + 1] = Lit("{", 1) })
ParsedArray(text, key, n) ==
  ElementsAt(text, ArrayOpens(text, key, n), ArrayCloses(text, ArrayOpens(text, key, n)))

\* The string value of the first member of the element that opens at k
FirstMember(text, k) == text[k + 9]

\* C21: the text formatJson returns parses to a record whose structure has
\* one element for each entry of the result and whose dependencies has one
\* element for each dependency, in the order of the result.
C21_JsonKeepsCounts ==
  (Built_ok /\ call.format = "json" /\ call.op \in {"buildTree", "buildContext"}) =>
    /\ Len(ParsedArray(ResultText, "structure", 9)) = Len(Formatted.entries)
    /\ \A i \in 1..Len(Formatted.entries) :
         FirstMember(ResultText, ParsedArray(ResultText, "structure", 9)[i])
           = Chars(Formatted.entries[i].relativePath)
    /\ Len(ParsedArray(ResultText, "dependencies", 12))
         = Len(Formatted.projectInfo.dependencies)
    /\ \A i \in 1..Len(Formatted.projectInfo.dependencies) :
         FirstMember(ResultText, ParsedArray(ResultText, "dependencies", 12)[i])
           = Str(Formatted.projectInfo.dependencies[i].name)

\* A record of several entries, one without a size, and three dependencies
C21_Witness ==
  /\ Built_ok /\ call.format = "json" /\ call.op = "buildTree"
  /\ Len(Formatted.entries) > 3
  /\ \E i \in 1..Len(Formatted.entries) : Formatted.entries[i].size = Undefined
  /\ Len(Formatted.projectInfo.dependencies) = 3

-----------------------------------------------------------------------------
(* Properties of the Cargo.toml parser                                     *)

\* The version key of the inline tables the manifests hold
InlineVersion == ("{ version = \"1\" }" :> "1")

\* The version an entry of a dependency table declares
DeclaredVersion(toml, table, entry) ==
  IF entry.value.t = "string" THEN entry.value.v
  ELSE IF entry.value.t = "raw" /\ entry.value.v \in DOMAIN InlineVersion
  THEN InlineVersion[entry.value.v]
  ELSE IF /\ entry.value.t = "table"
          /\ TomlValue(toml, Append(table, entry.key), "version") # Undefined
          /\ TomlValue(toml, Append(table, entry.key), "version")[1].t = "string"
  THEN TomlValue(toml, Append(table, entry.key), "version")[1].v
  ELSE "latest"

DeclaredIn(toml, table, isDev) ==
  IF TomlEntries(toml, table) = Undefined THEN <<>>
  ELSE [ i \in 1..Len(TomlEntries(toml, table)[1]) |->
           [ name |-> TomlEntries(toml, table)[1][i].key,
             version |-> DeclaredVersion(toml, table, TomlEntries(toml, table)[1][i]),
             isDev |-> isDev, isIndirect |-> FALSE ] ]

\* C22: the Rust parser returns the entries of dependencies (isDev false),
\* then of dev-dependencies and of build-dependencies (isDev true), each with
\* its bare version string or, for an inline table with a version key, the
\* string of that key.
C22_CargoVersions ==
  (Parsed("rust") /\ readToml(<<"Cargo.toml">>) # Undefined) =>
    Dependencies =
      DeclaredIn(readToml(<<"Cargo.toml">>), <<"dependencies">>, FALSE)
        \o DeclaredIn(readToml(<<"Cargo.toml">>), <<"dev-dependencies">>, TRUE)
        \o DeclaredIn(readToml(<<"Cargo.toml">>), <<"build-dependencies">>, TRUE)

-----------------------------------------------------------------------------
(* Properties of the Python parsers                                        *)

RootLines(name) ==
  IF <<name>> \in DOMAIN fs /\ <<name>> \notin faults.unreadable
  THEN fs[<<name>>].content.lines ELSE <<>>

\* requirements.txt is the file the dependencies are read from
ReadsRequirements ==
  /\ Parsed("python")
  /\ <<"pyproject.toml">> \notin DOMAIN fs
  /\ <<"Pipfile">> \notin DOMAIN fs

\* The lines that are neither blank, nor comments, nor "-r" includes
Requiring(lines) ==
  SelectSeq(lines, LAMBDA line : line.kind \notin {"blank", "comment", "include"})

\* C23: requirements.txt gives one dependency for each line that is not
\* blank, not a comment and not a "-r" include, in file order, with the
\* version of the line's first versioned clause, and "latest" for a line
\* without a version or one the parser cannot interpret.
C23_OneDependencyPerLine ==
  ReadsRequirements =>
    /\ Len(Dependencies) = Len(Requiring(RootLines("requirements.txt")))
    /\ \A i \in 1..Len(Dependencies) :
         LET line == Requiring(RootLines("requirements.txt"))[i]
         IN /\ Dependencies[i].version =
                 (IF line.kind = "req" /\ \E c \in 1..Len(line.clauses) : line.clauses[c].digit
                  THEN VersionMatch(line.clauses) ELSE "latest")
            /\ line.kind = "req" => Dependencies[i].name = line.name

\* The content of .python-version, when the file can be read and is not empty
PythonVersionFile ==
  IF /\ <<".python-version">> \in DOMAIN fs
     /\ <<".python-version">> \notin faults.unreadable
     /\ fs[<<".python-version">>].content.lines # <<>>
  THEN Some(fs[<<".python-version">>].content.lines[1]) ELSE Undefined

\* C24: the Python parser takes its dependencies from pyproject.toml when
\* that file exists, else from Pipfile when that exists, else from
\* requirements.txt, whatever the file chosen yields; the content of a
\* non-empty .python-version is the Python version whatever the manifest says.
C24_PythonPrecedence ==
  Parsed("python") =>
    /\ Dependencies =
         (IF <<"pyproject.toml">> \in DOMAIN fs THEN parsePyproject(Root).deps
          ELSE IF <<"Pipfile">> \in DOMAIN fs THEN parsePipfile(Root)
          ELSE IF <<"requirements.txt">> \in DOMAIN fs THEN parseRequirementsTxt(Root)
          ELSE <<>>)
    /\ PythonVersionFile # Undefined =>
         outcome.value[1].python[1].pythonVersion = PythonVersionFile

\* A pyproject.toml that yields nothing beside a Pipfile that lists packages:
\* no dependencies
C24_Witness ==
  /\ Parsed("python")
  /\ <<"pyproject.toml">> \in DOMAIN fs
  /\ parsePyproject(Root).deps = <<>>
  /\ parsePipfile(Root) # <<>>
  /\ Dependencies = <<>>

-----------------------------------------------------------------------------
(* Properties of the Turborepo strategy                                    *)

HasTurbo == <<"turbo.json">> \in DOMAIN fs
LaterStrategies == { i \in Succeeding : i >= 2 }

\* C25: with turbo.json the result has type turbo and the packages of the
\* npm-workspaces check, or of the pnpm check when the npm check does not
\* match; without turbo.json, or when neither check matches, the result is
\* that of Nx and the strategies after it.
C25_TurboDelegates ==
  call.op = "detectMonorepo" =>
    /\ (HasTurbo /\ detectNpmWorkspaces(Root) # Undefined) =>
         outcome.value = MonorepoInfo("turbo", detectNpmWorkspaces(Root)[1].packages)
    /\ (HasTurbo /\ detectNpmWorkspaces(Root) = Undefined
          /\ detectPnpmWorkspace(Root) # Undefined) =>
         outcome.value = MonorepoInfo("turbo", detectPnpmWorkspace(Root)[1].packages)
    /\ (~HasTurbo \/ (detectNpmWorkspaces(Root) = Undefined
                        /\ detectPnpmWorkspace(Root) = Undefined)) =>
         IF LaterStrategies = {} THEN outcome.value = Undefined
         ELSE /\ outcome.value = Strategy(Root, Least(LaterStrategies))
              /\ outcome.value[1].type # "turbo"

\* turbo.json over a root where both checks match with different lists: the
\* list of the npm workspaces is reported as turbo
C25_Witness ==
  /\ call.op = "detectMonorepo"
  /\ HasTurbo
  /\ detectNpmWorkspaces(Root) # Undefined
  /\ detectPnpmWorkspace(Root) # Undefined
  /\ Len(detectNpmWorkspaces(Root)[1].packages) # Len(detectPnpmWorkspace(Root)[1].packages)
  /\ outcome.value[1].type = "turbo"
  /\ outcome.value[1].packages = detectNpmWorkspaces(Root)[1].packages

-----------------------------------------------------------------------------
(* Properties of the Go workspace strategy                                 *)

GoWorkLines == fs[<<"go.work">>].content.lines

\* Whether line k of go.work lies inside a use ( ... ) block
InsideUse(lines, k) ==
  \E i \in 1..(k - 1) :
    /\ lines[i] = <<"use", "(">>
    /\ \A j \in (i + 1)..(k - 1) : lines[j] # <<")">>

\* The module path a line of go.work lists, if it lists one
UsePath(lines, k) ==
  IF Len(lines[k]) = 2 /\ lines[k][1] = "use" /\ lines[k][2] # "("
    THEN <<lines[k][2]>>
  ELSE IF InsideUse(lines, k) /\ Len(lines[k]) = 1 /\ lines[k] # <<")">>
    THEN <<lines[k][1]>>
  ELSE <<>>

RECURSIVE UsePackages(_, _)
UsePackages(lines, k) ==
  IF k > Len(lines) THEN <<>>
  ELSE (IF UsePath(lines, k) = <<>> THEN <<>>
        ELSE <<WorkspacePackage(Spelling[UsePath(lines, k)[1]],
                                Spelling[UsePath(lines, k)[1]], Some("go"))>>)
       \o UsePackages(lines, k + 1)

\* C26: the packages of a Go workspace are exactly the module paths of the
\* use directives of go.work, single-line or inside a use block, each as
\* name and path with type go; no other line yields a package.
C26_OnePackagePerUsePath ==
  (call.op = "detectMonorepo" /\ outcome.value # Undefined
     /\ outcome.value[1].type = "go-workspace") =>
    outcome.value[1].packages = UsePackages(GoWorkLines, 1)

-----------------------------------------------------------------------------
(* Properties of the connector tree                                        *)

TreeCall == call.op = "buildTree" /\ call.format = "tree" /\ outcome.status = "ok"
EntryList == Formatted.entries

\* The lines of a text: the pieces between line feeds
RECURSIVE LinesOf(_, _)
LinesOf(text, line) ==
  IF text = <<>> THEN (IF line = <<>> THEN <<>> ELSE <<line>>)
  ELSE IF Head(text) = NL THEN <<line>> \o LinesOf(Tail(text), <<>>)
  ELSE LinesOf(Tail(text), Append(line, Head(text)))

\* Entries with the same parent form a sibling group
IsLastSibling(entries, j) ==
  ~\E i \in (j + 1)..Len(entries) :
     ParentPath(entries[i].relativePath) = ParentPath(entries[j].relativePath)

\* The ancestor of entry j at depth d
AncestorAt(entries, j, d) ==
  CHOOSE i \in 1..Len(entries) :
    /\ entries[i].depth = d
    /\ StartsWith(entries[j].relativePath, entries[i].relativePath \o <<"/">>)

Guides(entries, j) ==
  [ d \in 1..entries[j].depth |->
      IF IsLastSibling(entries, AncestorAt(entries, j, d - 1))
      THEN Lit("    ", 4) ELSE Piece("|   ", 4, 6) ]

Branch(entries, j) ==
  IF IsLastSibling(entries, j) THEN Piece("+-- ", 4, 10) ELSE Piece("|-- ", 4, 10)

Named(entry) ==
  IF entry.isDirectory THEN <<Str(entry.name), Lit("/", 1)>> ELSE <<Str(entry.name)>>

\* The line of entry j; decorated: the glyph of the entry and a blank
\* stand between connector and name
TreeLine(entries, j, decorated) ==
  Guides(entries, j) \o <<Branch(entries, j)>>
    \o (IF decorated THEN <<getEmoji(entries[j]), Lit(" ", 1)>> ELSE <<>>)
    \o Named(entries[j])

\* C27 as stated: every line of the connector tree is prefix, connector and
\* name, whatever the emoji flag.
C27_LineIsPrefixConnectorName ==
  TreeCall =>
    LinesOf(ResultText, <<>>) =
      [ j \in 1..Len(EntryList) |-> TreeLine(EntryList, j, FALSE) ]

\* C27: every line of the connector tree is prefix, connector and name, with
\* the glyph of the entry and a blank before the name when the emoji flag is
\* set; the connector closes the sibling group at its last entry, the prefix
\* holds one guide per ancestor from the top, blank under an ancestor that
\* was the last of its group and barred otherwise, directories end in "/".
C27_TreeLines ==
  TreeCall =>
    LinesOf(ResultText, <<>>) =
      [ j \in 1..Len(EntryList) |-> TreeLine(EntryList, j, call.useEmoji) ]

\* A tree where a barred guide and a blank guide both occur and a directory
\* closes a group
C27_Witness ==
  /\ TreeCall
  /\ call.useEmoji
  /\ \E j \in 1..Len(EntryList) :
       /\ EntryList[j].depth = 2
       /\ Guides(EntryList, j)[1] # Guides(EntryList, j)[2]
  /\ \E j \in 1..Len(EntryList) : EntryList[j].isDirectory /\ IsLastSibling(EntryList, j)
  /\ \E j \in 1..Len(EntryList) : ~IsLastSibling(EntryList, j)

-----------------------------------------------------------------------------
(* Termination of the walk                                                 *)

Links == { p \in DOMAIN fs : fs[p].kind = "link" }
HasReturned(i) == tasks[i].pc \in {"done", "rejected"}

\* No call of scanDirectory is made on a symbolic link or below one
NeverDescended ==
  \A i \in TaskIds : \A k \in 1..Len(tasks[i].stack) :
    /\ tasks[i].stack[k].dir \in DOMAIN fs
    /\ fs[tasks[i].stack[k].dir].kind = "dir"

\* A listed symbolic link is a non-directory entry
ListedAsFile ==
  \A i \in TaskIds : \A k \in 1..Len(tasks[i].entries) :
    tasks[i].entries[k].path \in Links => ~tasks[i].entries[k].isDirectory

\* No directory is listed twice
ListedOnce ==
  \A i \in TaskIds : \A k, l \in 1..Len(tasks[i].entries) :
    (tasks[i].entries[k].isDirectory
       /\ Real(tasks[i].entries[k].path) = Real(tasks[i].entries[l].path)
       /\ tasks[i].entries[l].isDirectory) => k = l

\* C28: on a finite tree with symbolic links to ancestor directories the walk
\* never descends into a link, lists a link as a non-directory entry, lists
\* no directory twice, and every scan returns in the end.
C28_WalkTerminates ==
  /\ [](NeverDescended /\ ListedAsFile /\ ListedOnce)
  /\ <>(\A i \in TaskIds : HasReturned(i))

\* A scan that has returned with the link to its ancestor among the entries
C28_Witness ==
  /\ tasks # <<>>
  /\ tasks[1].pc = "done"
  /\ \E k \in 1..Len(tasks[1].entries) :
       /\ tasks[1].entries[k].path = <<"a", "a", "a">>
       /\ fs[<<"a", "a", "a">>].kind = "link"
       /\ fs[<<"a", "a", "a">>].target = <<"a">>
       /\ ~tasks[1].entries[k].isDirectory

-----------------------------------------------------------------------------
(* Requests and responses of the MCP server, pair by pair                  *)

ParsedAsJson(line) == line.json # Undefined
\* The id member of the value a line holds, if it has one
RequestId(line) == IF line.json[1].null THEN Undefined ELSE line.json[1].id

\* C29: the responses pair with the lines that are not blank, one each and
\* in the order of arrival, the response to a line standing before the next
\* line is handled; the response to a line that parsed as JSON carries the
\* id of its request, and only a line that did not parse gets the
\* parse-error response with id 0.
C29_ResponsesPairWithRequests ==
  /\ Len(stdout) = Cardinality({ j \in Consumed : ~stdin[j].blank })
  /\ \A k \in Consumed :
       (~stdin[k].blank /\ ParsedAsJson(stdin[k])) =>
         /\ ResponseTo(k).id = RequestId(stdin[k])
         /\ ResponseTo(k) # ParseError

-----------------------------------------------------------------------------
(* The formatters against the entry list                                   *)

\* A line of the connector tree that shows an entry: one guide per level,
\* the connector, the name
ShowsInTree(line, entry) ==
  /\ Len(line) = entry.depth + 1 + Len(Named(entry))
  /\ SubSeq(line, entry.depth + 2, Len(line)) = Named(entry)

\* A line of the indented list that shows an entry
ShowsInToon(line, entry) ==
  line = <<Piece(" ", 2 * entry.depth, 2 * entry.depth)>> \o Named(entry)

EachShown(lines, entries, Shows(_, _)) ==
  /\ Len(lines) = Len(entries)
  /\ \A j \in 1..Len(entries) : Shows(lines[j], entries[j])

\* C30: whatever the depth limit, the focus path and the ignore rules of the
\* scan, the connector tree and the indented list of its entries hold one
\* line per entry, in the order of the list; every entry below the root
\* finds its parent in the list.
C30_OneLinePerEntry ==
  /\ ScanReturned =>
       /\ EachShown(LinesOf(formatTree(Entries, FALSE), <<>>), Entries, ShowsInTree)
       /\ EachShown(LinesOf(formatToon(Entries), <<>>), Entries, ShowsInToon)
       /\ \A j \in 1..Len(Entries) : ParentIndex(Entries, j) # -1
  /\ (TreeCall /\ ~call.useEmoji) =>
       EachShown(LinesOf(ResultText, <<>>), EntryList, ShowsInTree)
  /\ (call.op = "buildTree" /\ call.format = "toon" /\ outcome.status = "ok") =>
       EachShown(LinesOf(ResultText, <<>>), EntryList, ShowsInToon)

\* A scan under a depth limit, a focus path and a caller's ignore pattern
\* together, with entries two directories down
C30_Witness ==
  /\ ScanReturned
  /\ call.options.depth # Undefined
  /\ call.options.focus # <<>>
  /\ call.options.ignore # <<>>
  /\ \E j \in 1..Len(Entries) : Entries[j].depth = 2
  /\ Len(LinesOf(formatTree(Entries, FALSE), <<>>)) >= 4
====
